---- MODULE Spec2Model ----
(***************************************************************************)
(* Model of the astronomical localization code of ai_astronomy_utils.py    *)
(* and of the bulk pass return_dsos_observer_gear of agents.py.            *)
(*                                                                         *)
(* Time is counted in ticks of four minutes: a solar day is 360 ticks, a   *)
(* sidereal day 359 ticks (23h56m), an hour 15 ticks.  An absolute instant *)
(* is the number of ticks since 2000-01-01T00:00Z.  Angles are whole       *)
(* degrees, right ascension in hours is kept in minutes of right           *)
(* ascension, air mass is kept in hundredths.                              *)
(*                                                                         *)
(* The Astronomy Engine (module astro) is an external library, modelled    *)
(* as a consistent sky: one altitude curve per (observer, star), symmetric *)
(* about the meridian transit, and rise/set/transit searches that read     *)
(* that same curve.                                                        *)
(***************************************************************************)
EXTENDS Integers, Sequences, FiniteSets, TLC

VARIABLES
    star1,      \* the engine's global user-defined star astro.Body.Star1
    locArgs,    \* arguments of the ai_localize_dso call
    locRes,     \* its outcome
    rtsArgs,    \* arguments of the calculate_rise_transit_set_fast call
    rtsRes,     \* its outcome
    gearArgs,   \* arguments of the return_dsos_observer_gear call
    gearRes,    \* its outcome
    dso_localized, \* the table dso_localized of the database
    pureArgs,   \* the function called and its arguments, for functions
                \* that touch no state of the program
    pureRes,    \* its outcome
    cache,      \* the memo tables of functools.cache
    threads     \* the searches that run concurrently

vars == <<star1, locArgs, locRes, rtsArgs, rtsRes, gearArgs, gearRes, dso_localized, pureArgs, pureRes, cache, threads>>

\* the variables added for pure calls, memoization and concurrent searches
otherVars == <<pureArgs, pureRes, cache, threads>>

----------------------------------------------------------------------------
(* Python values *)

\* Python's None, for fields that hold a number or None
None == -999999

\* "no call made / no value"
Idle == [op |-> "idle"]

Abs(x) == IF x < 0 THEN -x ELSE x

Min2(a, b) == IF a < b THEN a ELSE b

\* the value of F for the value of v, v evaluated once: a local variable
\* assigned v and then read by the code that follows
Bind(v, F(_)) == CHOOSE r \in {F(b) : b \in {v}} : TRUE

----------------------------------------------------------------------------
(* datetime, timedelta, tzinfo *)

\* timedelta(days=1), in ticks
TicksPerDay == 360

\* one hour, in ticks
TicksPerHour == 15

\* datetime(2000, 1, 1, 12, 0, 0, tzinfo=timezone.utc), in ticks since
\* 2000-01-01T00:00Z
J2000Epoch == 180

\* tzinfo values: absent (naive datetime), a fixed offset, or a ZoneInfo
NaiveTz == [kind |-> "naive", name |-> "", off |-> 0]

FixedTz(off) == [kind |-> "fixed", name |-> "", off |-> off]

\* timezone.utc
UtcTz == FixedTz(0)

ZoneInfo(tzname) == [kind |-> "zone", name |-> tzname, off |-> 0]

\* The zone database entry of America/Chicago for 2025: UTC-6 in standard
\* time, UTC-5 from 2025-03-09 02:00 to 2025-11-02 02:00 local time.
\* Days are numbered from 2000-01-01 = 0.
ChicagoStdOffset == -90

ChicagoDstOffset == -75

DstStartDay == 9199

DstEndDay == 9437

\* ZoneInfo.utcoffset of a wall-clock reading (fold = 0): a reading inside
\* the spring gap takes the offset in force before the gap, a reading in the
\* repeated autumn hour takes the first (daylight) one.
ZoneOffsetAtWall(tzname, wall) ==
    IF tzname = "America/Chicago"
    THEN IF /\ wall >= DstStartDay * TicksPerDay + 3 * TicksPerHour
            /\ wall < DstEndDay * TicksPerDay + 2 * TicksPerHour
         THEN ChicagoDstOffset
         ELSE ChicagoStdOffset
    ELSE 0

\* the offset the zone has at an absolute instant (what astimezone uses)
ZoneOffsetAtInstant(tzname, instant) ==
    IF tzname = "America/Chicago"
    THEN IF /\ instant >= DstStartDay * TicksPerDay + 2 * TicksPerHour - ChicagoStdOffset
            /\ instant < DstEndDay * TicksPerDay + 2 * TicksPerHour - ChicagoDstOffset
         THEN ChicagoDstOffset
         ELSE ChicagoStdOffset
    ELSE 0

\* datetime.utcoffset()
UtcOffset(dt) ==
    IF dt.tz.kind = "zone" THEN ZoneOffsetAtWall(dt.tz.name, dt.wall) ELSE dt.tz.off

\* The absolute instant of an aware datetime (what comparison and
\* subtraction of aware datetimes with different tzinfo use).
Instant(dt) == dt.wall - UtcOffset(dt)

\* dt.replace(hour=0, minute=0, second=0, microsecond=0)
ReplaceMidnight(dt) ==
    [dt EXCEPT !.wall = (dt.wall \div TicksPerDay) * TicksPerDay]

\* dt.replace(tzinfo=tz)
ReplaceTz(dt, tz) == [dt EXCEPT !.tz = tz]

\* dt + timedelta(days=n): wall-clock arithmetic, tzinfo kept
PlusDays(dt, n) == [dt EXCEPT !.wall = dt.wall + n * TicksPerDay]

\* a <= b for aware datetimes
DtLe(a, b) == Instant(a) <= Instant(b)

\* a < b for aware datetimes
DtLt(a, b) == Instant(a) < Instant(b)

\* the day count taken from the wall-clock fields, the UTC offset ignored
DatetimeToAstronomyTimeOfWall(dt) == dt.wall - J2000Epoch

\* datetime_to_astronomy_time: days since J2000.0 (here ticks); a naive
\* datetime is taken as UTC
datetime_to_astronomy_time(dt) ==
    LET aware == IF dt.tz.kind = "naive" THEN ReplaceTz(dt, UtcTz) ELSE dt
    IN  Instant(aware) - J2000Epoch

\* rise_j2000_epoch + timedelta(days=event.ut): a UTC datetime
EpochPlusDays(ut) == [wall |-> J2000Epoch + ut, tz |-> UtcTz]

\* strftime('%Y-%m-%dT%H:%M:%SZ'): the datetime's own wall-clock fields
\* followed by a literal Z
StrftimeZ(dt) ==
    [date |-> dt.wall \div TicksPerDay, time |-> dt.wall % TicksPerDay, suffix |-> "Z"]

\* an ISO date string as produced by datetime.isoformat(): date, time and
\* (when the datetime is aware) the UTC offset
IsoString(date, time, hasOffset, off) ==
    [date |-> date, time |-> time, hasOffset |-> hasOffset, off |-> off]

\* datetime.fromisoformat
FromIsoFormat(s) ==
    [wall |-> s.date * TicksPerDay + s.time,
     tz   |-> IF s.hasOffset THEN FixedTz(s.off) ELSE NaiveTz]

\* datetime.isoformat of an aware datetime
IsoFormat(dt) ==
    IsoString(dt.wall \div TicksPerDay, dt.wall % TicksPerDay,
              dt.tz.kind # "naive", UtcOffset(dt))

----------------------------------------------------------------------------
(* the Astronomy Engine *)

\* length of the sidereal day in ticks: the period of every star's
\* altitude curve
SiderealDay == 359

\* minutes of right ascension in 24 hours
RaMinutesPerCircle == 1440

\* astro.Observer(latitude, longitude, height)
Observer(lat, lon, height) == [lat |-> lat, lon |-> lon, height |-> height]

\* the star definition held by astro.Body.Star1 before any DefineStar
UndefinedStar == [defined |-> FALSE, ra |-> 0, dec |-> 0]

\* astro.DefineStar rejects a right ascension outside 0..24 hours and a
\* declination outside -90..+90 degrees
DefineStarValid(ra_hours, dec) ==
    /\ ra_hours >= 0 /\ ra_hours <= RaMinutesPerCircle
    /\ dec >= -90 /\ dec <= 90

\* astro.DefineStar(astro.Body.Star1, ra_hours, dec, 1000.0): the new
\* definition of the global star
DefineStar(ra_hours, dec) == [defined |-> TRUE, ra |-> ra_hours, dec |-> dec]

\* hour angle of (ra_hours) for the observer at astronomy time ut, in ticks
\* 0 .. SiderealDay-1; 0 is the meridian transit
HourAngle(observer, ra_hours, ut) ==
    (ut + (observer.lon * SiderealDay) \div 360
        - (ra_hours * SiderealDay) \div RaMinutesPerCircle) % SiderealDay

\* altitude at upper and at lower culmination
AltMax(observer, dec) == 90 - Abs(observer.lat - dec)

AltMin(observer, dec) == Abs(observer.lat + dec) - 90

\* astro.Horizon(time, observer, ra_hours, dec, Refraction.Normal).altitude
HorizonAltitude(observer, ra_hours, dec, ut) ==
    LET h == HourAngle(observer, ra_hours, ut)
        d == Min2(h, SiderealDay - h)
        span == AltMax(observer, dec) - AltMin(observer, dec)
    IN  AltMax(observer, dec) - (span * 2 * d) \div SiderealDay

\* astro.Horizon(...).azimuth, degrees in 0..359
HorizonAzimuth(observer, ra_hours, dec, ut) ==
    (180 + (HourAngle(observer, ra_hours, ut) * 360) \div SiderealDay) % 360

\* astro.Horizon
Horizon(ut, observer, ra_hours, dec) ==
    [altitude |-> HorizonAltitude(observer, ra_hours, dec, ut),
     azimuth  |-> HorizonAzimuth(observer, ra_hours, dec, ut)]

\* the star is above the horizon at ut
StarUp(star, observer, ut) == HorizonAltitude(observer, star.ra, star.dec, ut) > 0

\* The altitude falls with the distance d from the meridian (in ticks of
\* hour angle, 0 .. SiderealDay \div 2), so the star is up exactly for
\* d <= UpHalfWidth: the largest d whose altitude is positive, -1 for a
\* star that is never up.
UpHalfWidth(observer, dec) ==
    LET span == AltMax(observer, dec) - AltMin(observer, dec)
    IN  IF AltMax(observer, dec) <= 0 THEN -1
        ELSE IF span = 0 THEN SiderealDay \div 2
        ELSE Min2(SiderealDay \div 2,
                  (AltMax(observer, dec) * SiderealDay - 1) \div (2 * span))

\* the star crosses the horizon: it is neither never up nor always up
RisesAndSets(star, observer) ==
    /\ UpHalfWidth(observer, star.dec) >= 0
    /\ UpHalfWidth(observer, star.dec) < SiderealDay \div 2

\* the hour angle at which the star is first up (direction "Rise") or first
\* down (direction "Set")
CrossingHourAngle(star, observer, direction) ==
    IF direction = "Rise"
    THEN (SiderealDay - UpHalfWidth(observer, star.dec)) % SiderealDay
    ELSE UpHalfWidth(observer, star.dec) + 1

\* the first tick at or after startTime at which the star's hour angle is
\* hourAngle
NextAtHourAngle(star, observer, hourAngle, startTime) ==
    startTime + ((hourAngle - HourAngle(observer, star.ra, startTime)) % SiderealDay)

\* astro.SearchRiseSet(body, observer, direction, startTime, limitDays, 0.0):
\* the time of the first event at or after startTime and within limitDays,
\* or None
SearchRiseSet(star, observer, direction, startTime, limitDays) ==
    LET ut == NextAtHourAngle(star, observer,
                              CrossingHourAngle(star, observer, direction), startTime)
    IN  IF RisesAndSets(star, observer) /\ ut <= startTime + limitDays * TicksPerDay
        THEN ut
        ELSE None

\* astro.SearchHourAngle(body, observer, 0.0, startTime, +1).time: the first
\* meridian transit at or after startTime
SearchHourAngle(star, observer, startTime) ==
    NextAtHourAngle(star, observer, 0, startTime)

----------------------------------------------------------------------------
(* air mass *)

\* air mass is kept in hundredths
AirmassScale == 100

\* float(10000000), the air mass stored for an object below the horizon
BelowHorizonAirmass == 10000000 * AirmassScale

\* 1000 * math.cos(math.radians(90 - altitude)) for altitude 1 .. 90
CosZenith1000 ==
    <<17, 35, 52, 70, 87, 105, 122, 139, 156, 174, 191, 208, 225, 242, 259,
      276, 292, 309, 326, 342, 358, 375, 391, 407, 423, 438, 454, 469, 485,
      500, 515, 530, 545, 559, 574, 588, 602, 616, 629, 643, 656, 669, 682,
      695, 707, 719, 731, 743, 755, 766, 777, 788, 799, 809, 819, 829, 839,
      848, 857, 866, 875, 883, 891, 899, 906, 914, 921, 927, 934, 940, 946,
      951, 956, 961, 966, 970, 974, 978, 982, 985, 988, 990, 993, 995, 996,
      998, 999, 999, 1000, 1000>>

\* 1000 * 0.50572 * (altitude + 6.07995) ** (-1.6364) for altitude 1 .. 90
\* (Kasten & Young 1989), rounded
KastenYoungTerm1000(altitude) ==
    IF altitude <= 19
    THEN <<21, 17, 14, 12, 10, 9, 8, 7, 6, 5, 5, 4, 4, 4, 3, 3, 3, 3, 3>>[altitude]
    ELSE IF altitude <= 28 THEN 2 ELSE IF altitude <= 62 THEN 1 ELSE 0

\* 1.0 / math.cos(zenith_radians)
SecantAirmass(altitude) == (AirmassScale * 1000) \div CosZenith1000[altitude]

\* 1.0 / (math.cos(zenith_radians) + 0.50572 * (altitude + 6.07995)**(-1.6364))
KastenYoungAirmass(altitude) ==
    (AirmassScale * 1000) \div (CosZenith1000[altitude] + KastenYoungTerm1000(altitude))

\* the air mass / visibility branch of ai_localize_dso
AirmassVisible(altitude) ==
    IF altitude > 0
    THEN [airmass |-> IF altitude < 20 THEN KastenYoungAirmass(altitude)
                      ELSE SecantAirmass(altitude),
          visible |-> TRUE]
    ELSE [airmass |-> BelowHorizonAirmass, visible |-> FALSE]

----------------------------------------------------------------------------
(* the rise / transit / set search shared by calculate_rise_transit_set_fast
   and ai_localize_dso *)

\* a rise_time / transit_time / set_time that is None
NoneDt == [wall |-> None, tz |-> UtcTz]

\* a rise_time_iso / transit_time_iso / set_time_iso that is None
NoneStr == [date |-> None, time |-> None, suffix |-> ""]

\* the engine calls inside the try blocks, each of which may raise
FailPoints ==
    {"none", "DefineStar", "SearchRise", "SearchHourAngle", "SearchSet",
     "SearchPastRise", "SearchPastSet", "HorizonAtTransit"}

\* a failure at one of these calls reaches the outer except handler
OuterFailPoints == {"DefineStar", "SearchRise", "SearchSet"}

\* if day_start <= candidate < day_end: candidate else None, for the event
\* found at astronomy time ut (None when no event was found)
AcceptInWindow(ut, day_start, day_end) ==
    IF ut = None THEN NoneDt
    ELSE IF DtLe(day_start, EpochPlusDays(ut)) /\ DtLt(EpochPlusDays(ut), day_end)
         THEN EpochPlusDays(ut)
         ELSE NoneDt

\* The backward-search fallback: when the forward search found an event
\* that was not accepted, search from one day before the reference instant
\* over two days and accept the event found if it lies in the window.
\* epochBound: the local rise_j2000_epoch has been assigned (reading it
\* unassigned raises inside the try, which the bare except swallows).
PastSearch(time0, event, star, observer, direction, reference_date, day_start, day_end, failed, epochBound) ==
    IF time0 = NoneDt /\ event # None
    THEN IF failed \/ ~epochBound THEN time0
         ELSE LET yesterday == PlusDays(reference_date, -1)
                  yesterday_astro_time == datetime_to_astronomy_time(yesterday)
                  past_event == SearchRiseSet(star, observer, direction,
                                              yesterday_astro_time, 2)
              IN  AcceptInWindow(past_event, day_start, day_end)
    ELSE time0

\* whether PastSearch runs its search
PastSearchRuns(time0, event) == time0 = NoneDt /\ event # None

\* "Determine object status", with the altitude-at-transit override.
\* horizonOk: astro.Horizon at the transit time did not raise.
ClassifyAltElseKeepsCircumpolar(rise_event, set_event, rise_time, set_time, transit_time, horizonOk, altitudeAtTransit) ==
    LET circumpolar0 == rise_event = None /\ set_event = None /\ transit_time # NoneDt
        never_visible0 == rise_event = None /\ set_event = None /\ transit_time = NoneDt
    IN  IF transit_time # NoneDt /\ (rise_time = NoneDt \/ set_time = NoneDt)
        THEN IF horizonOk
             THEN IF altitudeAtTransit > 0
                  THEN [circumpolar |-> TRUE, never_visible |-> FALSE]
                  ELSE [circumpolar |-> circumpolar0, never_visible |-> TRUE]
             ELSE [circumpolar |-> FALSE, never_visible |-> TRUE]
        ELSE [circumpolar |-> circumpolar0, never_visible |-> never_visible0]

\* "Determine object status" without the altitude-at-transit override
ClassifyWithoutOverride(rise_event, set_event, rise_time, set_time, transit_time, horizonOk, altitudeAtTransit) ==
    [circumpolar |-> rise_event = None /\ set_event = None /\ transit_time # NoneDt,
     never_visible |-> rise_event = None /\ set_event = None /\ transit_time = NoneDt]

Classify(rise_event, set_event, rise_time, set_time, transit_time, horizonOk, altitudeAtTransit) ==
    LET circumpolar0 == rise_event = None /\ set_event = None /\ transit_time # NoneDt
        never_visible0 == rise_event = None /\ set_event = None /\ transit_time = NoneDt
    IN  IF transit_time # NoneDt /\ (rise_time = NoneDt \/ set_time = NoneDt)
        THEN IF horizonOk
             THEN IF altitudeAtTransit > 0
                  THEN [circumpolar |-> TRUE, never_visible |-> FALSE]
                  ELSE [circumpolar |-> FALSE, never_visible |-> TRUE]
             ELSE [circumpolar |-> FALSE, never_visible |-> TRUE]
        ELSE [circumpolar |-> circumpolar0, never_visible |-> never_visible0]

\* whether the altitude at transit is evaluated
OverrideRuns(rise_time, set_time, transit_time) ==
    transit_time # NoneDt /\ (rise_time = NoneDt \/ set_time = NoneDt)

\* a handler that nulls the times and leaves never_visible false
SearchFallbackNotNeverVisible(star) ==
    [star |-> star, raised |-> TRUE,
     rise_event |-> None, set_event |-> None,
     rise_time |-> NoneDt, transit_time |-> NoneDt, set_time |-> NoneDt,
     circumpolar |-> FALSE, never_visible |-> FALSE,
     override |-> FALSE, pastRise |-> FALSE, pastSet |-> FALSE]

\* the except-handler of the search: "If anything fails, fall back to None"
SearchFallback(star) ==
    [star |-> star, raised |-> TRUE,
     rise_event |-> None, set_event |-> None,
     rise_time |-> NoneDt, transit_time |-> NoneDt, set_time |-> NoneDt,
     circumpolar |-> FALSE, never_visible |-> TRUE,
     override |-> FALSE, pastRise |-> FALSE, pastSet |-> FALSE]

----------------------------------------------------------------------------
(* ai_localize_dso *)

\* degrees of right ascension to hours (kept in minutes): ra / 15.0
RaHours(ra) == (ra * 60) \div 15

\* the names bound where ai_localize_dso executes "return dso": its
\* parameters and locals, and the globals of ai_astronomy_utils
NamesInScope ==
    {"ra", "dec", "observer_lat", "observer_lon", "date_iso", "tzname", "obs_date",
     "astro", "datetime", "timedelta", "timezone", "ZoneInfo", "math",
     "MIN_AIRMASS", "MIN_ALT_FOR_COLOR", "DEFAULT_TIMEZONE", "stellarium_object_types"}

\* evaluating a name: bound, or NameError
NameLookup(name) == IF name \in NamesInScope THEN "none" ELSE "NameError"

\* observer elevation used by ai_localize_dso, meters
LocalizeElevation == 300

\* day_start of ai_localize_dso: obs_date.replace(hour=0, minute=0,
\* second=0, microsecond=0), tagged UTC when naive
LocalizeDayStart(obs_date) ==
    IF obs_date.tz.kind = "naive" THEN ReplaceTz(ReplaceMidnight(obs_date), UtcTz)
    ELSE ReplaceMidnight(obs_date)

\* a window of one day, as in calculate_rise_transit_set_fast
LocalizeDayEndAfterOneDay(day_start) == PlusDays(day_start, 1)

\* day_end of ai_localize_dso: day_start + timedelta(days=2)
LocalizeDayEnd(day_start) == PlusDays(day_start, 2)

\* the try block of ai_localize_dso: DefineStar, the searches, the
\* fallbacks and the classification
AiSearch(observer, ra_hours, dec, obs_date, fail, previousStar) ==
    LET day_start == LocalizeDayStart(obs_date)
        day_end == LocalizeDayEnd(day_start)
        start_astro_time == datetime_to_astronomy_time(day_start)
        star == DefineStar(ra_hours, dec)
    IN  IF fail = "DefineStar" \/ ~DefineStarValid(ra_hours, dec)
        THEN SearchFallback(previousStar)
        ELSE IF fail \in OuterFailPoints
        THEN SearchFallback(star)
        ELSE
        Bind(SearchRiseSet(star, observer, "Rise", start_astro_time, 1), LAMBDA rise_event :
        Bind(AcceptInWindow(rise_event, day_start, day_end), LAMBDA rise_time0 :
        Bind(IF rise_event # None THEN rise_event ELSE start_astro_time,
             LAMBDA transit_search_time :
        Bind(IF fail = "SearchHourAngle" THEN NoneDt
             ELSE AcceptInWindow(SearchHourAngle(star, observer, transit_search_time),
                                 day_start, day_end), LAMBDA transit_time :
        Bind(IF rise_event # None THEN rise_event ELSE start_astro_time,
             LAMBDA rise_astro_time :
        Bind(SearchRiseSet(star, observer, "Set", rise_astro_time, 1), LAMBDA set_event :
        Bind(AcceptInWindow(set_event, day_start, day_end), LAMBDA set_time0 :
        Bind(PastSearch(rise_time0, rise_event, star, observer, "Rise", obs_date,
                        day_start, day_end, fail = "SearchPastRise", TRUE),
             LAMBDA rise_time :
        Bind(PastSearch(set_time0, set_event, star, observer, "Set", obs_date,
                        day_start, day_end, fail = "SearchPastSet", rise_event # None),
             LAMBDA set_time :
        Bind(IF transit_time = NoneDt THEN None
             ELSE Horizon(datetime_to_astronomy_time(transit_time), observer,
                          ra_hours, dec).altitude, LAMBDA altitudeAtTransit :
        Bind(Classify(rise_event, set_event, rise_time, set_time, transit_time,
                      fail # "HorizonAtTransit", altitudeAtTransit), LAMBDA status :
             [star |-> star, raised |-> FALSE,
              rise_event |-> rise_event, set_event |-> set_event,
              rise_time |-> rise_time, transit_time |-> transit_time,
              set_time |-> set_time,
              circumpolar |-> status.circumpolar,
              never_visible |-> status.never_visible,
              override |-> OverrideRuns(rise_time, set_time, transit_time),
              pastRise |-> PastSearchRuns(rise_time0, rise_event),
              pastSet |-> PastSearchRuns(set_time0, set_event)])))))))))))

\* the time formatted after conversion to America/Chicago wall-clock time
TimeIsoLocal(t) ==
    IF t = NoneDt THEN NoneStr
    ELSE StrftimeZ([t EXCEPT !.wall = Instant(t) + ZoneOffsetAtInstant("America/Chicago", Instant(t))])

\* rise_time.strftime('%Y-%m-%dT%H:%M:%SZ') or None
TimeIso(t) == IF t = NoneDt THEN NoneStr ELSE StrftimeZ(t)

\* the variable "horizontal" at the return statement: the altitude-at-
\* transit evaluation inside the try block assigns the same variable
HorizontalAtReturn(atObs, search, fail, observer, ra_hours, dec) ==
    IF search.override /\ fail # "HorizonAtTransit"
    THEN Horizon(datetime_to_astronomy_time(search.transit_time), observer, ra_hours, dec)
    ELSE atObs

\* ai_localize_dso(ra, dec, observer_lat, observer_lon, date_iso, tzname)
ai_localize_dso(ra, dec, observer_lat, observer_lon, date_iso, tzname, fail, previousStar) ==
    LET parsed == FromIsoFormat(date_iso)
        obs_date == IF parsed.tz.kind = "naive" THEN ReplaceTz(parsed, ZoneInfo(tzname))
                    ELSE parsed
        observer == Observer(observer_lat, observer_lon, LocalizeElevation)
        astro_time == datetime_to_astronomy_time(obs_date)
        ra_hours == RaHours(ra)
    IN  IF observer_lat = None \/ observer_lon = None
        THEN [raised |-> NameLookup("dso"), searched |-> FALSE,
              star |-> previousStar, obs_date |-> obs_date,
              altitude |-> None, azimuth |-> None, airmass |-> None, visible |-> FALSE,
              rise_time_iso |-> NoneStr, transit_time_iso |-> NoneStr,
              set_time_iso |-> NoneStr, atObs |-> [altitude |-> None, azimuth |-> None],
              search |-> SearchFallback(previousStar)]
        ELSE
        Bind(Horizon(astro_time, observer, ra_hours, dec), LAMBDA atObs :
        Bind(AirmassVisible(atObs.altitude), LAMBDA am :
        Bind(AiSearch(observer, ra_hours, dec, obs_date, fail, previousStar),
             LAMBDA search :
        Bind(HorizontalAtReturn(atObs, search, fail, observer, ra_hours, dec),
             LAMBDA horizontal :
             [raised |-> "none", searched |-> TRUE,
              star |-> search.star, obs_date |-> obs_date,
              altitude |-> horizontal.altitude, azimuth |-> horizontal.azimuth,
              airmass |-> am.airmass, visible |-> am.visible,
              rise_time_iso |-> TimeIso(search.rise_time),
              transit_time_iso |-> TimeIso(search.transit_time),
              set_time_iso |-> TimeIso(search.set_time),
              atObs |-> atObs, search |-> search]))))

----------------------------------------------------------------------------
(* calculate_rise_transit_set_fast *)

\* One iteration of the loop over ra_dec_list: the try block and its
\* except handler.  previousStar is the definition Star1 holds on entry,
\* epochBound whether an earlier iteration assigned rise_j2000_epoch.
RtsSearch(ra, dec, observer, reference_date, day_start, day_end, fail, previousStar, epochBound) ==
    LET ra_hours == RaHours(ra)
        start_astro_time == datetime_to_astronomy_time(day_start)
        star == DefineStar(ra_hours, dec)
    IN  IF fail = "DefineStar" \/ ~DefineStarValid(ra_hours, dec)
        THEN SearchFallback(previousStar) @@ [epochBound |-> epochBound]
        ELSE
        Bind(SearchRiseSet(star, observer, "Rise", start_astro_time, 1), LAMBDA rise_event :
        IF fail \in OuterFailPoints
        THEN SearchFallback(star) @@
             [epochBound |-> epochBound \/ (fail = "SearchSet" /\ rise_event # None)]
        ELSE
        Bind(AcceptInWindow(rise_event, day_start, day_end), LAMBDA rise_time0 :
        Bind(IF fail = "SearchHourAngle" THEN NoneDt
             ELSE AcceptInWindow(SearchHourAngle(star, observer, start_astro_time),
                                 day_start, day_end), LAMBDA transit_time :
        Bind(SearchRiseSet(star, observer, "Set", start_astro_time, 1), LAMBDA set_event :
        Bind(AcceptInWindow(set_event, day_start, day_end), LAMBDA set_time0 :
        Bind(PastSearch(rise_time0, rise_event, star, observer, "Rise", reference_date,
                        day_start, day_end, fail = "SearchPastRise", TRUE),
             LAMBDA rise_time :
        Bind(PastSearch(set_time0, set_event, star, observer, "Set", reference_date,
                        day_start, day_end, fail = "SearchPastSet",
                        epochBound \/ rise_event # None), LAMBDA set_time :
        Bind(IF transit_time = NoneDt THEN None
             ELSE Horizon(datetime_to_astronomy_time(transit_time), observer,
                          ra_hours, dec).altitude, LAMBDA altitudeAtTransit :
        Bind(Classify(rise_event, set_event, rise_time, set_time, transit_time,
                      fail # "HorizonAtTransit", altitudeAtTransit), LAMBDA status :
             [star |-> star, raised |-> FALSE,
              rise_event |-> rise_event, set_event |-> set_event,
              rise_time |-> rise_time, transit_time |-> transit_time,
              set_time |-> set_time,
              circumpolar |-> status.circumpolar,
              never_visible |-> status.never_visible,
              override |-> OverrideRuns(rise_time, set_time, transit_time),
              pastRise |-> PastSearchRuns(rise_time0, rise_event),
              pastSet |-> PastSearchRuns(set_time0, set_event),
              epochBound |-> epochBound \/ rise_event # None])))))))))

\* the dictionary appended to results
RtsEntry(ra, dec, search) ==
    [ra |-> ra, dec |-> dec,
     rise_time |-> search.rise_time, transit_time |-> search.transit_time,
     set_time |-> search.set_time,
     circumpolar |-> search.circumpolar, never_visible |-> search.never_visible]

\* the loop "for ra, dec in ra_dec_list": the searches of the first n
\* coordinates, in order; fails[i] is the engine call that raises while
\* coordinate i is processed
RECURSIVE RtsLoop(_, _, _, _, _, _, _, _)
RtsLoop(ra_dec_list, n, observer, reference_date, day_start, day_end, fails, initialStar) ==
    IF n = 0 THEN <<>>
    ELSE Bind(RtsLoop(ra_dec_list, n - 1, observer, reference_date,
                      day_start, day_end, fails, initialStar), LAMBDA before :
              Append(before,
                     RtsSearch(ra_dec_list[n][1], ra_dec_list[n][2], observer,
                               reference_date, day_start, day_end, fails[n],
                               IF n = 1 THEN initialStar ELSE before[n - 1].star,
                               IF n = 1 THEN FALSE ELSE before[n - 1].epochBound)))

\* calculate_rise_transit_set_fast(ra_dec_list, observer_lat, observer_lon,
\* reference_date, elevation_meters)
calculate_rise_transit_set_fast(ra_dec_list, observer_lat, observer_lon, reference_date, elevation_meters, fails, initialStar) ==
    LET observer == Observer(observer_lat, observer_lon, elevation_meters)
        day_start0 == ReplaceMidnight(reference_date)
        day_start == IF day_start0.tz.kind = "naive" THEN ReplaceTz(day_start0, UtcTz)
                     ELSE day_start0
        day_end == PlusDays(day_start, 1)
    IN  Bind(RtsLoop(ra_dec_list, Len(ra_dec_list), observer, reference_date,
                     day_start, day_end, fails, initialStar), LAMBDA searches :
             [raised |-> "none",
              results |-> [i \in 1 .. Len(ra_dec_list) |->
                             RtsEntry(ra_dec_list[i][1], ra_dec_list[i][2], searches[i])],
              searches |-> searches,
              day_start |-> day_start, day_end |-> day_end,
              star |-> IF Len(ra_dec_list) = 0 THEN initialStar
                       ELSE searches[Len(ra_dec_list)].star])

----------------------------------------------------------------------------
(* convert_utc_iso_to_local *)

\* datetime.fromisoformat(iso_str.replace('Z', '+00:00'))
ParseUtcIso(iso_str) == [wall |-> iso_str.date * TicksPerDay + iso_str.time, tz |-> UtcTz]

\* dt.astimezone(ZoneInfo(tzname))
AsTimezone(dt, tzname) ==
    [wall |-> Instant(dt) + ZoneOffsetAtInstant(tzname, Instant(dt)), tz |-> ZoneInfo(tzname)]

\* the UTC wall-clock fields formatted without conversion to the zone
ConvertUtcIsoWithoutZone(iso_str, tzname) ==
    IF iso_str = NoneStr THEN NoneStr
    ELSE [date |-> iso_str.date, time |-> iso_str.time, suffix |-> ""]

\* convert_utc_iso_to_local(iso_str, tzname): "%Y-%m-%d %H:%M:%S", no offset
convert_utc_iso_to_local(iso_str, tzname) ==
    IF iso_str = NoneStr THEN NoneStr
    ELSE LET dt_local == AsTimezone(ParseUtcIso(iso_str), tzname)
         IN  [date |-> dt_local.wall \div TicksPerDay,
              time |-> dt_local.wall % TicksPerDay, suffix |-> ""]

----------------------------------------------------------------------------
(* return_dsos_observer_gear *)

\* optional text fields of ObserverContext: None, the empty string, or text
NoneText == [k |-> "None"]

EmptyText == [k |-> "empty"]

DateText(day) == [k |-> "date", day |-> day]

\* "HH:MM" or "HH:MM:SS"
TimeText(tod, withSeconds) == [k |-> "time", tod |-> tod, withSeconds |-> withSeconds]

\* text that is no HH:MM time, such as "8PM"
OtherText == [k |-> "other"]

ZoneText(tzname) == [k |-> "zone", name |-> tzname]

\* the truth value of an optional text: None and "" are false
Truthy(text) == text # NoneText /\ text # EmptyText

\* value if value else default
OrDefault(value, default) == IF Truthy(value) THEN value ELSE default

\* the four assert statements on observer_context; assert is compiled away
\* when __debug__ is false (python -O)
AssertsPass(observer_context, debug) ==
    \/ ~debug
    \/ /\ observer_context.observe_date # NoneText
       /\ observer_context.observe_time # NoneText
       /\ observer_context.timezone # NoneText

\* "ensure we have no seconds in time string": a text with three
\* colon-separated parts keeps the first two
StripSeconds(local_time) ==
    IF local_time.k = "time" /\ local_time.withSeconds
    THEN TimeText(local_time.tod, FALSE)
    ELSE local_time

\* strptime(f"{local_date} {local_time}", "%Y-%m-%d %H:%M") accepts the text
StrptimeAccepts(local_date, local_time) ==
    local_date.k = "date" /\ local_time.k = "time" /\ ~local_time.withSeconds

\* the parsed naive datetime
Strptime(local_date, local_time) ==
    [wall |-> local_date.day * TicksPerDay + local_time.tod, tz |-> NaiveTz]

\* "if observer_context has location compute localization"
SitePresentEither(observer_context) ==
    observer_context.latitude_deg # None \/ observer_context.longitude_deg # None

SitePresent(observer_context) ==
    observer_context.latitude_deg # None /\ observer_context.longitude_deg # None

\* the row inserted into dso_localized for a catalog row
LocalizedRow(dso_row, altitude, azimuth, air_mass, rise_time, set_time, transit_time) ==
    [dso_id |-> dso_row.dso_id, catalog |-> dso_row.catalog, name |-> dso_row.name,
     ra_dd |-> dso_row.ra_dd, dec_dd |-> dso_row.dec_dd, type |-> dso_row.type,
     class |-> dso_row.class, vis_mag |-> dso_row.vis_mag,
     maj_axis |-> dso_row.maj_axis, min_axis |-> dso_row.min_axis,
     size |-> dso_row.size, constellation |-> dso_row.constellation,
     constellation_abbr |-> dso_row.constellation_abbr,
     altitude |-> altitude, azimuth |-> azimuth, air_mass |-> air_mass,
     rise_time |-> rise_time, set_time |-> set_time, transit_time |-> transit_time]

\* the table of the previous request kept
KeepTable == dso_localized

\* DROP TABLE IF EXISTS dso_localized; CREATE TABLE dso_localized (...):
\* the table as the request starts to fill it
CreateTable == <<>>

\* INSERT OR REPLACE INTO dso_localized: dso_id is the primary key
InsertOrReplace(table, row) ==
    IF \E i \in 1 .. Len(table) : table[i].dso_id = row.dso_id
    THEN [i \in 1 .. Len(table) |-> IF table[i].dso_id = row.dso_id THEN row ELSE table[i]]
    ELSE Append(table, row)

\* The loop "for dso_row in all_dsos" over the first n rows: the table, the
\* engine's star, the number of ai_localize_dso calls and the error raised
\* (the loop stops at the first error).
RECURSIVE LocalizeLoop(_, _, _, _, _, _)
LocalizeLoop(all_dsos, n, observer_context, date_iso, local_tz, initialStar) ==
    IF n = 0
    THEN [table |-> CreateTable, star |-> initialStar, calls |-> 0, raised |-> "none"]
    ELSE Bind(LocalizeLoop(all_dsos, n - 1, observer_context, date_iso,
                           local_tz, initialStar), LAMBDA before :
         IF before.raised # "none" THEN before
         ELSE IF SitePresent(observer_context)
         THEN Bind(ai_localize_dso(all_dsos[n].ra_dd, all_dsos[n].dec_dd,
                                   observer_context.latitude_deg,
                                   observer_context.longitude_deg,
                                   date_iso, local_tz.name, "none", before.star),
                   LAMBDA loc :
              IF loc.raised # "none"
              THEN [before EXCEPT !.calls = @ + 1, !.raised = loc.raised]
              ELSE [table |-> InsertOrReplace(before.table,
                                 LocalizedRow(all_dsos[n], loc.altitude, loc.azimuth,
                                              loc.airmass, loc.rise_time_iso,
                                              loc.set_time_iso, loc.transit_time_iso)),
                    star |-> loc.star, calls |-> before.calls + 1,
                    raised |-> "none"])
         ELSE [before EXCEPT !.table =
                  InsertOrReplace(before.table,
                      LocalizedRow(all_dsos[n], None, None, None,
                                   NoneStr, NoneStr, NoneStr))])

\* the queries the agent may supply: every row, the rows above 30 degrees,
\* and a text the query engine rejects
QueryAccepted(ai_query) == ai_query \in {"all", "altitude > 30"}

\* the WHERE clause; a comparison with NULL is not true
QuerySelects(ai_query, row) ==
    IF ai_query = "altitude > 30" THEN row.altitude # None /\ row.altitude > 30
    ELSE TRUE

\* cursor.execute(ai_query); cursor.fetchall()
RECURSIVE FetchAll(_, _, _)
FetchAll(table, n, ai_query) ==
    IF n = 0 THEN <<>>
    ELSE IF QuerySelects(ai_query, table[n])
         THEN Append(FetchAll(table, n - 1, ai_query), table[n])
         ELSE FetchAll(table, n - 1, ai_query)

\* the zone the result times are converted to for display
DisplayZone == "America/Chicago"

\* "-" for a time that is NULL
Dash == [date |-> None, time |-> None, suffix |-> "-"]

\* rise / set / transit of a DeepSpaceObject of the Plan
DisplayTime(iso_str) ==
    IF iso_str # NoneStr THEN convert_utc_iso_to_local(iso_str, DisplayZone) ELSE Dash

\* the DeepSpaceObject built from a selected row
DeepSpaceObject(row) ==
    [row EXCEPT !.rise_time = DisplayTime(row.rise_time),
                !.set_time = DisplayTime(row.set_time),
                !.transit_time = DisplayTime(row.transit_time)]

\* Plan(dsos=objects, equipment=gear, observer_context=observer_context)
Plan(rows, gear, observer_context) ==
    [dsos |-> [i \in 1 .. Len(rows) |-> DeepSpaceObject(rows[i])],
     equipment |-> gear, observer_context |-> observer_context]

NoPlan == [dsos |-> <<>>, equipment |-> "", observer_context |-> ""]

\* an outcome in which the error is swallowed and an empty plan returned
GearReturnsEmptyPlan(error, table, star, calls, used) ==
    [raised |-> "none", plan |-> NoPlan, table |-> table, star |-> star,
     calls |-> calls, used |-> used, connClosed |-> TRUE]

\* an outcome that raises; table is dso_localized as the call leaves it
GearRaises(error, table, star, calls, used) ==
    [raised |-> error, plan |-> NoPlan, table |-> table, star |-> star,
     calls |-> calls, used |-> used, connClosed |-> TRUE]

\* local_date, local_time and local_tz not yet chosen
NothingUsed == [local_date |-> NoneText, local_time |-> NoneText, local_tz |-> NoneText]

\* return_dsos_observer_gear(ctx, ai_query, observer_context, gear); deps is
\* ctx.deps, all_dsos the rows of table dso, debug is __debug__
return_dsos_observer_gear(deps, ai_query, observer_context, gear, all_dsos, debug, initialStar) ==
    LET local_date == OrDefault(observer_context.observe_date, deps.default_date)
        local_time0 == OrDefault(observer_context.observe_time, deps.default_time)
        local_tz == OrDefault(observer_context.timezone, deps.default_timezone)
        local_time == StripSeconds(local_time0)
        used == [local_date |-> local_date, local_time |-> local_time0,
                 local_tz |-> local_tz]
        dt == ReplaceTz(Strptime(local_date, local_time), ZoneInfo(local_tz.name))
    IN  IF ~AssertsPass(observer_context, debug)
        THEN GearRaises("AssertionError", <<>>, initialStar, 0, NothingUsed)
        ELSE IF ~StrptimeAccepts(local_date, local_time)
        THEN GearRaises("ValueError", <<>>, initialStar, 0, used)
        ELSE
        Bind(LocalizeLoop(all_dsos, Len(all_dsos), observer_context,
                          IsoFormat(dt), local_tz, initialStar), LAMBDA loop :
        IF loop.raised # "none"
        THEN GearRaises(loop.raised, <<>>, loop.star, loop.calls, used)
        ELSE IF ~QueryAccepted(ai_query)
        THEN GearRaises("OperationalError", loop.table, loop.star, loop.calls, used)
        ELSE [raised |-> "none",
              plan |-> Plan(FetchAll(loop.table, Len(loop.table), ai_query),
                            gear, observer_context),
              table |-> loop.table, star |-> loop.star, calls |-> loop.calls,
              used |-> used, connClosed |-> TRUE])

----------------------------------------------------------------------------
(* inputs *)

\* right ascensions (degrees), declinations (degrees), observer sites
RaChoices == {0, 90, 211, 212, 375}

DecChoices == {-60, -29, 0, 29, 60}

SiteChoices == {<<60, -95>>, <<None, -95>>, <<60, None>>}

\* calendar days: the day before the spring transition, the day of the
\* spring transition and the day of the autumn transition of 2025
DayChoices == {DstStartDay - 1, DstStartDay, DstEndDay}

\* wall-clock times of day, in ticks: 00:00, 13:00, 21:00, 23:16, 23:40
TimeChoices == {0, 195, 315, 349, 355}

\* ISO strings: without offset, or with the offset America/Chicago has at
\* that wall-clock reading
IsoChoices ==
    {IsoString(d, t, FALSE, 0) : d \in DayChoices, t \in TimeChoices}
    \cup {IsoString(d, t, TRUE, ZoneOffsetAtWall("America/Chicago", d * TicksPerDay + t)) :
            d \in DayChoices, t \in TimeChoices}

\* longest ra_dec_list given to calculate_rise_transit_set_fast
MaxList == 2

\* coordinates (ra, dec) of the lists: a star that rises and sets, one that
\* is up for twenty minutes a day, a circumpolar one, one that never rises
CoordChoices == {<<0, 0>>, <<33, -29>>, <<0, 60>>, <<0, -60>>}

\* lists of distinct coordinates
RECURSIVE ListsOfLength(_)
ListsOfLength(n) ==
    IF n = 0 THEN {<<>>}
    ELSE {Append(l, c) : l \in {k \in ListsOfLength(n - 1) : TRUE}, c \in CoordChoices}

ListChoices ==
    {l \in UNION {ListsOfLength(n) : n \in 1 .. MaxList} :
        \A i, j \in 1 .. Len(l) : i # j => l[i] # l[j]}

\* at most one coordinate of a list meets a failing engine call
FailChoices(n) ==
    {f \in [1 .. n -> FailPoints] :
        Cardinality({i \in 1 .. n : f[i] # "none"}) <= 1}

\* reference dates: the day of the spring transition at 00:00 and 21:00
\* and the day of the autumn transition at 21:00 in America/Chicago, and a
\* naive 13:00 on the day of the spring transition, and 21:00 on the day
\* before the spring transition (a day of 24 hours)
ReferenceDateChoices ==
    {[wall |-> (DstStartDay - 1) * TicksPerDay + 315, tz |-> ZoneInfo("America/Chicago")],
     [wall |-> DstStartDay * TicksPerDay, tz |-> ZoneInfo("America/Chicago")],
     [wall |-> DstStartDay * TicksPerDay + 315, tz |-> ZoneInfo("America/Chicago")],
     [wall |-> DstEndDay * TicksPerDay + 315, tz |-> ZoneInfo("America/Chicago")],
     [wall |-> DstStartDay * TicksPerDay + 195, tz |-> NaiveTz]}

\* most rows of table dso in a request
MaxCatalog == 3

\* coordinates (ra_dd, dec_dd) of the catalog rows, repeating after four
CatalogCoords == <<<<212, 29>>, <<0, 60>>, <<90, -60>>, <<0, 0>>>>

\* row i of table dso
DsoRow(i) ==
    [dso_id |-> i, catalog |-> "M", name |-> "object",
     ra_dd |-> CatalogCoords[((i - 1) % 4) + 1][1] + 2 * ((i - 1) \div 4),
     dec_dd |-> CatalogCoords[((i - 1) % 4) + 1][2],
     type |-> "Gx", class |-> "Gal", vis_mag |-> 8, maj_axis |-> 10, min_axis |-> 5,
     size |-> "10x5", constellation |-> "Andromeda", constellation_abbr |-> "And"]

\* SELECT * from dso, for a catalog of n rows
DsoTable(n) == [i \in 1 .. n |-> DsoRow(i)]

\* ctx.deps: default_date "2025-12-25", default_time 20:00 (the time the
\* module was loaded), default_timezone "America/Chicago"
Deps ==
    [default_date |-> DateText(9490), default_time |-> TimeText(300, FALSE),
     default_timezone |-> ZoneText("America/Chicago")]

\* observer contexts of a request
ObserverContextChoices ==
    [latitude_deg : {60, None}, longitude_deg : {-95, None},
     observe_date : {DateText(DstStartDay - 1), NoneText, EmptyText},
     observe_time : {TimeText(315, FALSE), TimeText(315, TRUE), OtherText,
                     NoneText, EmptyText},
     timezone : {ZoneText("America/Chicago"), NoneText, EmptyText}]

QueryChoices == {"all", "altitude > 30", "not sql"}

\* no pure call, empty memo tables, no concurrent searches
NoCache == [rts |-> <<>>, twilight |-> <<>>]

OthersIdle == pureArgs = Idle /\ pureRes = Idle /\ cache = NoCache /\ threads = Idle

----------------------------------------------------------------------------
(* specification of one ai_localize_dso call *)

InitLocalize ==
    /\ star1 = UndefinedStar
    /\ locArgs \in {a \in [ra : RaChoices, dec : DecChoices, site : SiteChoices,
                            date_iso : IsoChoices, tzname : {"America/Chicago"},
                            fail : FailPoints] :
                        (None \in {a.site[1], a.site[2]}) => a.fail = "none"}
    /\ locRes = Idle
    /\ rtsArgs = Idle /\ rtsRes = Idle
    /\ gearArgs = Idle /\ gearRes = Idle
    /\ dso_localized = <<>>
    /\ OthersIdle

AiLocalizeDso ==
    /\ locArgs # Idle /\ locRes = Idle
    /\ \E r \in {ai_localize_dso(locArgs.ra, locArgs.dec, locArgs.site[1],
                                 locArgs.site[2], locArgs.date_iso, locArgs.tzname,
                                 locArgs.fail, star1)} :
          /\ locRes' = r
          /\ star1' = r.star
    /\ UNCHANGED <<locArgs, rtsArgs, rtsRes, gearArgs, gearRes, dso_localized, otherVars>>

NextLocalize == AiLocalizeDso

SpecLocalize == InitLocalize /\ [][NextLocalize]_vars

----------------------------------------------------------------------------
(* specification of one calculate_rise_transit_set_fast call *)

InitRts ==
    /\ star1 = UndefinedStar
    /\ \E l \in ListChoices :
         rtsArgs \in [ra_dec_list : {l}, observer_lat : {60}, observer_lon : {-95},
                      reference_date : ReferenceDateChoices,
                      elevation_meters : {0}, fails : FailChoices(Len(l))]
    /\ rtsRes = Idle
    /\ locArgs = Idle /\ locRes = Idle
    /\ gearArgs = Idle /\ gearRes = Idle
    /\ dso_localized = <<>>
    /\ OthersIdle

CalculateRiseTransitSetFast ==
    /\ rtsArgs # Idle /\ rtsRes = Idle
    /\ \E r \in {calculate_rise_transit_set_fast(rtsArgs.ra_dec_list,
                    rtsArgs.observer_lat, rtsArgs.observer_lon, rtsArgs.reference_date,
                    rtsArgs.elevation_meters, rtsArgs.fails, star1)} :
          /\ rtsRes' = r
          /\ star1' = r.star
    /\ UNCHANGED <<rtsArgs, locArgs, locRes, gearArgs, gearRes, dso_localized, otherVars>>

NextRts == CalculateRiseTransitSetFast

SpecRts == InitRts /\ [][NextRts]_vars

----------------------------------------------------------------------------
(* specification of one return_dsos_observer_gear call *)

InitGear ==
    /\ star1 = UndefinedStar
    /\ gearArgs \in [ai_query : QueryChoices, observer_context : ObserverContextChoices,
                     gear : {"gear"}, catalogRows : 0 .. MaxCatalog, debug : BOOLEAN]
    /\ gearRes = Idle
    /\ locArgs = Idle /\ locRes = Idle
    /\ rtsArgs = Idle /\ rtsRes = Idle
    /\ dso_localized = <<>>
    /\ OthersIdle

ReturnDsosObserverGear ==
    /\ gearArgs # Idle /\ gearRes = Idle
    /\ \E r \in {return_dsos_observer_gear(Deps, gearArgs.ai_query,
                    gearArgs.observer_context, gearArgs.gear,
                    DsoTable(gearArgs.catalogRows), gearArgs.debug, star1)} :
          /\ gearRes' = r
          /\ star1' = r.star
          /\ dso_localized' = r.table
    /\ UNCHANGED <<gearArgs, locArgs, locRes, rtsArgs, rtsRes, otherVars>>

NextGear == ReturnDsosObserverGear

SpecGear == InitGear /\ [][NextGear]_vars

----------------------------------------------------------------------------
(* the three entry points together *)

Init == InitLocalize \/ InitRts \/ InitGear

Next == AiLocalizeDso \/ CalculateRiseTransitSetFast \/ ReturnDsosObserverGear

Spec == Init /\ [][Next]_vars

----------------------------------------------------------------------------
(* convert_local_day_and_time_to_utc_iso *)

\* strptime(dt_str, "%Y-%m-%d %H:%M:%S") or, failing that,
\* strptime(dt_str, "%Y-%m-%d %H:%M") accepts the text
StrptimeEitherAccepts(local_date, local_time) ==
    local_date.k = "date" /\ local_time.k = "time"

\* utc_dt.replace(tzinfo=None).isoformat(timespec="seconds") + "Z"
IsoformatSecondsZ(dt) ==
    [date |-> dt.wall \div TicksPerDay, time |-> dt.wall % TicksPerDay, suffix |-> "Z"]

\* the wall-clock reading formatted without conversion to UTC
ConvertWithoutZone(local_date, local_time, timezone_str) ==
    IF ~StrptimeEitherAccepts(local_date, local_time)
    THEN [raised |-> "ValueError", value |-> NoneStr]
    ELSE [raised |-> "none",
          value |-> IsoformatSecondsZ(Strptime(local_date, local_time))]

\* convert_local_day_and_time_to_utc_iso(local_date, local_time, timezone_str)
convert_local_day_and_time_to_utc_iso(local_date, local_time, timezone_str) ==
    IF ~StrptimeEitherAccepts(local_date, local_time)
    THEN [raised |-> "ValueError", value |-> NoneStr]
    ELSE LET naive == Strptime(local_date, local_time)
             local_dt == ReplaceTz(naive, ZoneInfo(timezone_str))
             utc_dt == AsTimezone(local_dt, "UTC")
         IN  [raised |-> "none", value |-> IsoformatSecondsZ(utc_dt)]

\* dates given to the conversion: 2025-12-04, the days around the two
\* transitions of 2025, a text that is no date, the empty text
ConvertDateChoices ==
    {DateText(d) : d \in {9469, DstStartDay - 1, DstStartDay, DstEndDay}}
        \cup {OtherText, EmptyText}

\* times given to the conversion: 00:00, 01:28, 02:32, 13:00, 22:00, 23:40
\* as HH:MM and as HH:MM:SS, a text that is no time, the empty text
ConvertTimeChoices ==
    {TimeText(t, w) : t \in {0, 22, 38, 195, 330, 355}, w \in BOOLEAN}
        \cup {OtherText, EmptyText}

ConvertZoneChoices == {"America/Chicago", "UTC"}

InitConvert ==
    /\ star1 = UndefinedStar
    /\ locArgs = Idle /\ locRes = Idle
    /\ rtsArgs = Idle /\ rtsRes = Idle
    /\ gearArgs = Idle /\ gearRes = Idle
    /\ dso_localized = <<>>
    /\ pureArgs \in [op : {"convert_local_day_and_time_to_utc_iso"},
                     local_date : ConvertDateChoices, local_time : ConvertTimeChoices,
                     timezone_str : ConvertZoneChoices]
    /\ pureRes = Idle /\ cache = NoCache /\ threads = Idle

ConvertLocalDayAndTimeToUtcIso ==
    /\ pureArgs # Idle /\ pureArgs.op = "convert_local_day_and_time_to_utc_iso"
    /\ pureRes = Idle
    /\ pureRes' = convert_local_day_and_time_to_utc_iso(pureArgs.local_date,
                      pureArgs.local_time, pureArgs.timezone_str)
    /\ UNCHANGED <<star1, locArgs, locRes, rtsArgs, rtsRes, gearArgs, gearRes,
                   dso_localized, pureArgs, cache, threads>>

NextConvert == ConvertLocalDayAndTimeToUtcIso

SpecConvert == InitConvert /\ [][NextConvert]_vars

----------------------------------------------------------------------------
(* specification of one datetime_to_astronomy_time call *)

\* time zones an argument carries: none, UTC, the fixed offsets -06:00 and
\* -05:00, and the zone America/Chicago
TzChoices ==
    {NaiveTz, UtcTz, FixedTz(ChicagoStdOffset), FixedTz(ChicagoDstOffset),
     ZoneInfo("America/Chicago")}

\* datetimes given to datetime_to_astronomy_time
DatetimeChoices ==
    [wall : {d * TicksPerDay + t : d \in {9469, DstStartDay - 1, DstStartDay, DstEndDay},
                                   t \in {0, 22, 38, 195, 330, 355}},
     tz : TzChoices]

InitAstroTime ==
    /\ star1 = UndefinedStar
    /\ locArgs = Idle /\ locRes = Idle
    /\ rtsArgs = Idle /\ rtsRes = Idle
    /\ gearArgs = Idle /\ gearRes = Idle
    /\ dso_localized = <<>>
    /\ pureArgs \in [op : {"datetime_to_astronomy_time"}, dt : DatetimeChoices]
    /\ pureRes = Idle /\ cache = NoCache /\ threads = Idle

DatetimeToAstronomyTime ==
    /\ pureArgs # Idle /\ pureArgs.op = "datetime_to_astronomy_time"
    /\ pureRes = Idle
    /\ pureRes' = [value |-> datetime_to_astronomy_time(pureArgs.dt)]
    /\ UNCHANGED <<star1, locArgs, locRes, rtsArgs, rtsRes, gearArgs, gearRes,
                   dso_localized, pureArgs, cache, threads>>

NextAstroTime == DatetimeToAstronomyTime

SpecAstroTime == InitAstroTime /\ [][NextAstroTime]_vars

----------------------------------------------------------------------------
(* two concurrent rise/transit/set searches.  The searches of
   calculate_rise_transit_set_fast and ai_localize_dso define the one
   user-defined star of the engine, astro.Body.Star1, and then pass
   the name Star1 to SearchRiseSet and SearchHourAngle, which read its
   definition when they run.  Each engine call is one step of a thread. *)

Threads == {1, 2}

\* observer and start of search of both invocations
ThreadObserver == Observer(60, -95, 0)

ThreadDayStart == [wall |-> 9469 * TicksPerDay, tz |-> ZoneInfo("America/Chicago")]

\* the star an invocation defines for its own target
OwnStar(t) == DefineStar(RaHours(threads[t].ra), threads[t].dec)

InitThreads ==
    /\ star1 = UndefinedStar
    /\ locArgs = Idle /\ locRes = Idle
    /\ rtsArgs = Idle /\ rtsRes = Idle
    /\ gearArgs = Idle /\ gearRes = Idle
    /\ dso_localized = <<>>
    /\ pureArgs = Idle /\ pureRes = Idle /\ cache = NoCache
    /\ \E c1 \in CoordChoices : \E c2 \in CoordChoices \ {c1} :
         threads = [t \in Threads |->
                      [pc |-> "DefineStar",
                       ra |-> IF t = 1 THEN c1[1] ELSE c2[1],
                       dec |-> IF t = 1 THEN c1[2] ELSE c2[2],
                       rise_event |-> None, transit_event |-> None,
                       set_event |-> None, readOther |-> FALSE]]

ThreadFrame ==
    UNCHANGED <<locArgs, locRes, rtsArgs, rtsRes, gearArgs, gearRes,
                dso_localized, pureArgs, pureRes, cache>>

\* astro.DefineStar(astro.Body.Star1, ra_hours, dec, 1000.0)
ThreadDefineStar(t) ==
    /\ threads # Idle /\ threads[t].pc = "DefineStar"
    /\ star1' = OwnStar(t)
    /\ threads' = [threads EXCEPT ![t].pc = "SearchRise"]
    /\ ThreadFrame

\* astro.SearchRiseSet(star_body, observer, astro.Direction.Rise, ...)
ThreadSearchRise(t) ==
    /\ threads # Idle /\ threads[t].pc = "SearchRise"
    /\ threads' = [threads EXCEPT
                     ![t].pc = "SearchHourAngle",
                     ![t].rise_event =
                         SearchRiseSet(star1, ThreadObserver, "Rise",
                                       datetime_to_astronomy_time(ThreadDayStart), 1),
                     ![t].readOther = @ \/ star1 # OwnStar(t)]
    /\ UNCHANGED star1 /\ ThreadFrame

\* astro.SearchHourAngle(star_body, observer, 0.0, start_astro_time)
ThreadSearchHourAngle(t) ==
    /\ threads # Idle /\ threads[t].pc = "SearchHourAngle"
    /\ threads' = [threads EXCEPT
                     ![t].pc = "SearchSet",
                     ![t].transit_event =
                         SearchHourAngle(star1, ThreadObserver,
                                         datetime_to_astronomy_time(ThreadDayStart)),
                     ![t].readOther = @ \/ star1 # OwnStar(t)]
    /\ UNCHANGED star1 /\ ThreadFrame

\* astro.SearchRiseSet(star_body, observer, astro.Direction.Set, ...)
ThreadSearchSet(t) ==
    /\ threads # Idle /\ threads[t].pc = "SearchSet"
    /\ threads' = [threads EXCEPT
                     ![t].pc = "done",
                     ![t].set_event =
                         SearchRiseSet(star1, ThreadObserver, "Set",
                                       datetime_to_astronomy_time(ThreadDayStart), 1),
                     ![t].readOther = @ \/ star1 # OwnStar(t)]
    /\ UNCHANGED star1 /\ ThreadFrame

NextThreads ==
    \E t \in Threads :
        \/ ThreadDefineStar(t)
        \/ ThreadSearchRise(t)
        \/ ThreadSearchHourAngle(t)
        \/ ThreadSearchSet(t)

SpecThreads == InitThreads /\ [][NextThreads]_vars

----------------------------------------------------------------------------
(* find_all_twilight_times *)

\* first day of 2025, in days since 2000-01-01
FirstDayOf2025 == 9132

\* declination of the Sun at astronomy time ut, in degrees: +23 at the June
\* solstice, -23 at the December solstice
SunDeclination(ut) ==
    LET doy == ((ut + J2000Epoch) \div TicksPerDay - FirstDayOf2025) % 365
    IN  23 - (Abs(doy - 172) * 46) \div 183

\* hour angle of the Sun for the observer at ut, in ticks 0 .. TicksPerDay-1
SunHourAngle(observer, ut) == (ut + observer.lon) % TicksPerDay

\* the Sun is above altitude exactly while its distance from the meridian
\* is at most SunHalfWidth: -1 when it never is, TicksPerDay \div 2 when it
\* always is
SunHalfWidth(observer, dec, altitude) ==
    LET span == AltMax(observer, dec) - AltMin(observer, dec)
    IN  IF AltMax(observer, dec) <= altitude THEN -1
        ELSE IF span = 0 THEN TicksPerDay \div 2
        ELSE Min2(TicksPerDay \div 2,
                  ((AltMax(observer, dec) - altitude) * TicksPerDay - 1) \div (2 * span))

\* astro.SearchAltitude(astro.Body.Sun, observer, direction, startTime,
\* limitDays, altitude): the first time at or after startTime at which the
\* Sun passes altitude upward (Rise) or downward (Set), or None
SearchAltitude(observer, direction, startTime, limitDays, altitude) ==
    LET w == SunHalfWidth(observer, SunDeclination(startTime), altitude)
        target == IF direction = "Rise" THEN (TicksPerDay - w) % TicksPerDay ELSE w + 1
        ut == startTime + ((target - SunHourAngle(observer, startTime)) % TicksPerDay)
    IN  IF w >= 0 /\ w < TicksPerDay \div 2 /\ ut <= startTime + limitDays * TicksPerDay
        THEN ut
        ELSE None

\* twilight_altitudes, in the order of the dictionary
TwilightTypes == <<"civil", "nautical", "astronomical">>

TwilightAltitude(twilight_type) ==
    CASE twilight_type = "civil" -> -6
      [] twilight_type = "nautical" -> -12
      [] twilight_type = "astronomical" -> -18

\* f'{twilight_type}_evening' and f'{twilight_type}_morning'
EveningKey(twilight_type) == twilight_type \o "_evening"

MorningKey(twilight_type) == twilight_type \o "_morning"

\* dt.astimezone(tz)
AsTimezoneOf(dt, tz) ==
    IF tz.kind = "zone" THEN AsTimezone(dt, tz.name)
    ELSE [wall |-> Instant(dt) + tz.off, tz |-> tz]

\* convert_to_original_tz(astro_event)
convert_to_original_tz(astro_event, original_tz) ==
    IF astro_event = None THEN NoneDt
    ELSE AsTimezoneOf(EpochPlusDays(astro_event), original_tz)

\* the SearchAltitude call that raises for a threshold
TwilightFailPoints == {"none", "evening", "morning"}

\* the body of the loop for one threshold: the two entries it stores
TwilightEntries(twilight_type, observer, astro_time, original_tz, fail) ==
    IF fail # "none"
    THEN (EveningKey(twilight_type) :> NoneDt) @@ (MorningKey(twilight_type) :> NoneDt)
    ELSE Bind(SearchAltitude(observer, "Set", astro_time, 1,
                             TwilightAltitude(twilight_type)), LAMBDA evening_event :
         Bind(SearchAltitude(observer, "Rise",
                             IF evening_event # None THEN evening_event ELSE astro_time,
                             1, TwilightAltitude(twilight_type)), LAMBDA morning_event :
              (EveningKey(twilight_type) :> convert_to_original_tz(evening_event, original_tz))
              @@ (MorningKey(twilight_type) :> convert_to_original_tz(morning_event, original_tz))))

\* a loop that stops at the first threshold whose search fails
RECURSIVE TwilightLoopStopsAtFailure(_, _, _, _, _)
TwilightLoopStopsAtFailure(n, observer, astro_time, original_tz, fails) ==
    IF n = 0 THEN <<>>
    ELSE IF \E i \in 1 .. n - 1 : fails[TwilightTypes[i]] # "none"
    THEN TwilightLoopStopsAtFailure(n - 1, observer, astro_time, original_tz, fails)
    ELSE TwilightEntries(TwilightTypes[n], observer, astro_time, original_tz,
                         fails[TwilightTypes[n]])
         @@ TwilightLoopStopsAtFailure(n - 1, observer, astro_time, original_tz, fails)

\* "for twilight_type, altitude in twilight_altitudes.items()": results
\* after the first n thresholds
RECURSIVE TwilightLoop(_, _, _, _, _)
TwilightLoop(n, observer, astro_time, original_tz, fails) ==
    IF n = 0 THEN <<>>
    ELSE TwilightEntries(TwilightTypes[n], observer, astro_time, original_tz,
                         fails[TwilightTypes[n]])
         @@ TwilightLoop(n - 1, observer, astro_time, original_tz, fails)

\* reference_date.replace(hour=12, minute=0, second=0, microsecond=0)
ReplaceNoon(dt) ==
    [dt EXCEPT !.wall = (dt.wall \div TicksPerDay) * TicksPerDay + 12 * TicksPerHour]

\* find_all_twilight_times(observer_lat, observer_lon, reference_date,
\* elevation_meters) without its memoization; fails[type] is the search
\* that raises for the threshold
find_all_twilight_times(observer_lat, observer_lon, reference_date, elevation_meters, fails) ==
    LET original_tz == IF reference_date.tz.kind = "naive" THEN UtcTz
                       ELSE reference_date.tz
        start_of_day == IF reference_date.tz.kind = "naive"
                        THEN ReplaceTz(ReplaceNoon(reference_date), UtcTz)
                        ELSE AsTimezoneOf(ReplaceNoon(reference_date), UtcTz)
    IN  [raised |-> "none",
         results |-> TwilightLoop(Len(TwilightTypes),
                                  Observer(observer_lat, observer_lon, elevation_meters),
                                  datetime_to_astronomy_time(start_of_day),
                                  original_tz, fails)]

\* reference dates of the twilight calls: a June day, the days of the two
\* transitions and a December day, in America/Chicago, at a fixed offset
\* and naive
TwilightDateChoices ==
    {[wall |-> d * TicksPerDay + 315, tz |-> z] :
        d \in {9303, DstStartDay, DstEndDay, 9469},
        z \in {ZoneInfo("America/Chicago"), FixedTz(ChicagoStdOffset), NaiveTz}}

NoTwilightFailure == [t \in {"civil", "nautical", "astronomical"} |-> "none"]

InitTwilight ==
    /\ star1 = UndefinedStar
    /\ locArgs = Idle /\ locRes = Idle
    /\ rtsArgs = Idle /\ rtsRes = Idle
    /\ gearArgs = Idle /\ gearRes = Idle
    /\ dso_localized = <<>>
    /\ pureArgs \in [op : {"find_all_twilight_times"}, observer_lat : {30, 60},
                     observer_lon : {-95}, reference_date : TwilightDateChoices,
                     elevation_meters : {0},
                     fails : [{"civil", "nautical", "astronomical"} -> TwilightFailPoints]]
    /\ pureRes = Idle /\ cache = NoCache /\ threads = Idle

FindAllTwilightTimes ==
    /\ pureArgs # Idle /\ pureArgs.op = "find_all_twilight_times"
    /\ pureRes = Idle
    /\ pureRes' = find_all_twilight_times(pureArgs.observer_lat, pureArgs.observer_lon,
                      pureArgs.reference_date, pureArgs.elevation_meters, pureArgs.fails)
    /\ UNCHANGED <<star1, locArgs, locRes, rtsArgs, rtsRes, gearArgs, gearRes,
                   dso_localized, pureArgs, cache, threads>>

NextTwilight == FindAllTwilightTimes

SpecTwilight == InitTwilight /\ [][NextTwilight]_vars

----------------------------------------------------------------------------
(* @cache on calculate_rise_transit_set_fast and find_all_twilight_times:
   functools.cache keeps a dictionary from the argument tuple to the
   object returned by the first call with that tuple.  A later call whose
   argument tuple is equal (==, with equal hash) to a stored one is given
   the stored object itself. *)

\* a == b for datetimes: naive ones by their fields, aware ones of the same
\* tzinfo by their fields, aware ones of different tzinfo by their UTC
\* instant; a naive and an aware one are never equal
DatetimeEq(a, b) ==
    IF a.tz.kind = "naive" \/ b.tz.kind = "naive"
    THEN a.tz.kind = b.tz.kind /\ a.wall = b.wall
    ELSE IF a.tz = b.tz THEN a.wall = b.wall
    ELSE Instant(a) = Instant(b)

\* equality of the field-by-field argument tuples, the dates compared as
\* records
ArgsIdentical(a, b) == a = b

\* equality of two argument tuples as the cache's dictionary sees it
ArgsEq(a, b) ==
    /\ a.fn = b.fn
    /\ a.ra_dec_list = b.ra_dec_list
    /\ a.observer_lat = b.observer_lat /\ a.observer_lon = b.observer_lon
    /\ DatetimeEq(a.reference_date, b.reference_date)

\* the wrapped function applied to an argument tuple
Uncached(a, star) ==
    IF a.fn = "calculate_rise_transit_set_fast"
    THEN Bind(calculate_rise_transit_set_fast(a.ra_dec_list, a.observer_lat,
                  a.observer_lon, a.reference_date, 0,
                  [i \in 1 .. Len(a.ra_dec_list) |-> "none"], star), LAMBDA r :
              [value |-> r.results, star |-> r.star])
    ELSE [value |-> find_all_twilight_times(a.observer_lat, a.observer_lon,
                        a.reference_date, 0, NoTwilightFailure).results,
          star |-> star]

\* the entries of the dictionary of the function called by a
CacheOf(a) == IF a.fn = "calculate_rise_transit_set_fast" THEN cache.rts ELSE cache.twilight

\* positions of the entries whose key equals a
Hits(a) == {i \in 1 .. Len(CacheOf(a)) : ArgsEq(CacheOf(a)[i].key, a)}

\* most calls in a behaviour
MaxCalls == 2

\* reference dates of the memoized calls: 21:00 of 2025-03-08 in
\* America/Chicago, the same instant as 03:00 of 2025-03-09 UTC, the same
\* instant at the fixed offset -06:00, and the naive 21:00 of 2025-03-08
CacheDateChoices ==
    {[wall |-> (DstStartDay - 1) * TicksPerDay + 315, tz |-> ZoneInfo("America/Chicago")],
     [wall |-> DstStartDay * TicksPerDay + 45, tz |-> UtcTz],
     [wall |-> (DstStartDay - 1) * TicksPerDay + 315, tz |-> FixedTz(ChicagoStdOffset)],
     [wall |-> (DstStartDay - 1) * TicksPerDay + 315, tz |-> NaiveTz]}

CacheCallChoices ==
    [fn : {"calculate_rise_transit_set_fast"}, ra_dec_list : {<<<<0, 0>>>>, <<<<33, -29>>>>},
     observer_lat : {60}, observer_lon : {-95}, reference_date : CacheDateChoices]
    \cup
    [fn : {"find_all_twilight_times"}, ra_dec_list : {<<>>},
     observer_lat : {60}, observer_lon : {-95}, reference_date : CacheDateChoices]

InitCache ==
    /\ star1 = UndefinedStar
    /\ locArgs = Idle /\ locRes = Idle
    /\ rtsArgs = Idle /\ rtsRes = Idle
    /\ gearArgs = Idle /\ gearRes = Idle
    /\ dso_localized = <<>>
    /\ pureArgs = [op |-> "cached", calls |-> <<>>, mutated |-> FALSE]
    /\ pureRes = Idle /\ cache = NoCache /\ threads = Idle

CacheFrame ==
    UNCHANGED <<locArgs, locRes, rtsArgs, rtsRes, gearArgs, gearRes,
                dso_localized, threads>>

\* a call whose argument tuple equals a stored key: the stored object is
\* returned and the function body does not run.  In the result, value is
\* the returned object as it is now and returned its content at the return
CachedCallHit ==
    /\ pureArgs # Idle /\ pureArgs.op = "cached" /\ Len(pureArgs.calls) < MaxCalls
    /\ \E a \in CacheCallChoices :
         /\ Hits(a) # {}
         /\ \E i \in Hits(a) :
              pureRes' = [fn |-> a.fn, value |-> CacheOf(a)[i].value,
                          returned |-> CacheOf(a)[i].value, entry |-> i, hit |-> TRUE]
         /\ pureArgs' = [pureArgs EXCEPT !.calls = Append(@, a)]
    /\ UNCHANGED <<star1, cache>> /\ CacheFrame

\* a call whose argument tuple equals no stored key: the function body
\* runs and its result is stored under the tuple
CachedCallMiss ==
    /\ pureArgs # Idle /\ pureArgs.op = "cached" /\ Len(pureArgs.calls) < MaxCalls
    /\ \E a \in CacheCallChoices :
         /\ Hits(a) = {}
         /\ \E r \in {Uncached(a, star1)} :
              /\ pureRes' = [fn |-> a.fn, value |-> r.value, returned |-> r.value,
                             entry |-> Len(CacheOf(a)) + 1, hit |-> FALSE]
              /\ star1' = r.star
              /\ cache' = IF a.fn = "calculate_rise_transit_set_fast"
                          THEN [cache EXCEPT !.rts = Append(@, [key |-> a, value |-> r.value])]
                          ELSE [cache EXCEPT
                                  !.twilight = Append(@, [key |-> a, value |-> r.value])]
         /\ pureArgs' = [pureArgs EXCEPT !.calls = Append(@, a)]
    /\ CacheFrame

\* the caller changes the list it received from
\* calculate_rise_transit_set_fast (results[0]['rise_time'] = None): the
\* list is the object held by the cache
CallerMutatesList ==
    /\ pureRes # Idle /\ pureArgs.op = "cached"
    /\ pureRes.fn = "calculate_rise_transit_set_fast"
    /\ pureRes.value[1].rise_time # NoneDt
    /\ \E v \in {[pureRes.value EXCEPT ![1].rise_time = NoneDt]} :
         /\ pureRes' = [pureRes EXCEPT !.value = v]
         /\ cache' = [cache EXCEPT !.rts[pureRes.entry].value = v]
    /\ pureArgs' = [pureArgs EXCEPT !.mutated = TRUE]
    /\ UNCHANGED star1 /\ CacheFrame

\* the caller changes the dict it received from find_all_twilight_times
\* (result['civil_evening'] = None): the dict is the object held by the
\* cache
CallerMutatesDict ==
    /\ pureRes # Idle /\ pureArgs.op = "cached"
    /\ pureRes.fn = "find_all_twilight_times"
    /\ pureRes.value["civil_evening"] # NoneDt
    /\ \E v \in {[pureRes.value EXCEPT !["civil_evening"] = NoneDt]} :
         /\ pureRes' = [pureRes EXCEPT !.value = v]
         /\ cache' = [cache EXCEPT !.twilight[pureRes.entry].value = v]
    /\ pureArgs' = [pureArgs EXCEPT !.mutated = TRUE]
    /\ UNCHANGED star1 /\ CacheFrame

NextCache ==
    \/ CachedCallHit
    \/ CachedCallMiss
    \/ CallerMutatesList
    \/ CallerMutatesDict

SpecCache == InitCache /\ [][NextCache]_vars

----------------------------------------------------------------------------
(* radec_to_altaz_airmass and ra_dec_to_altaz_airmass_multiple_times *)

\* float('inf'), the air mass these two functions give an object below the
\* horizon
InfinityAirmass == 2147483647

\* the secant formula for every altitude above the horizon
AirmassSecantOnly(altitude) ==
    IF altitude > 0
    THEN [airmass |-> SecantAirmass(altitude), visible |-> TRUE]
    ELSE [airmass |-> InfinityAirmass, visible |-> FALSE]

\* the air mass / visibility branch of the two functions
AirmassOrInfinity(altitude) ==
    IF altitude > 0
    THEN [airmass |-> IF altitude < 20 THEN KastenYoungAirmass(altitude)
                      ELSE SecantAirmass(altitude),
          visible |-> TRUE]
    ELSE [airmass |-> InfinityAirmass, visible |-> FALSE]

\* the dictionary appended for one coordinate at one astronomy time
AltAzEntry(ra, dec, observer, ut) ==
    Bind(Horizon(ut, observer, RaHours(ra), dec), LAMBDA horizontal :
         [ra |-> ra, dec |-> dec,
          altitude |-> horizontal.altitude, azimuth |-> horizontal.azimuth,
          airmass |-> AirmassOrInfinity(horizontal.altitude).airmass,
          visible |-> AirmassOrInfinity(horizontal.altitude).visible])

\* radec_to_altaz_airmass(ra_dec_list, observer_lat, observer_lon,
\* observation_time)
radec_to_altaz_airmass(ra_dec_list, observer_lat, observer_lon, observation_time) ==
    [i \in 1 .. Len(ra_dec_list) |->
        AltAzEntry(ra_dec_list[i][1], ra_dec_list[i][2],
                   Observer(observer_lat, observer_lon, 0),
                   datetime_to_astronomy_time(observation_time))]

\* ra_dec_to_altaz_airmass_multiple_times(ra, dec, observer_lat,
\* observer_lon, datetime_list)
ra_dec_to_altaz_airmass_multiple_times(ra, dec, observer_lat, observer_lon, datetime_list) ==
    [i \in 1 .. Len(datetime_list) |->
        AltAzEntry(ra, dec, Observer(observer_lat, observer_lon, 0),
                   datetime_to_astronomy_time(datetime_list[i]))
        @@ [datetime |-> datetime_list[i],
            j2000_days |-> datetime_to_astronomy_time(datetime_list[i])]]

\* observation times: 21:00 and 23:16 of the day before the spring
\* transition in America/Chicago, 03:00 UTC, and a naive 13:00
AltAzTimeChoices ==
    {[wall |-> (DstStartDay - 1) * TicksPerDay + 315, tz |-> ZoneInfo("America/Chicago")],
     [wall |-> (DstStartDay - 1) * TicksPerDay + 349, tz |-> ZoneInfo("America/Chicago")],
     [wall |-> DstEndDay * TicksPerDay + 45, tz |-> UtcTz],
     [wall |-> DstStartDay * TicksPerDay + 195, tz |-> NaiveTz]}

\* lists of at most MaxList observation times
AltAzTimeLists ==
    UNION {[1 .. n -> AltAzTimeChoices] : n \in 0 .. MaxList}

\* coordinates of the two functions; at 21:00 of the day before the spring
\* transition (26, 0) stands at 20 degrees and (86, 0) at 0 degrees
AltAzCoordChoices == {<<0, 0>>, <<26, 0>>, <<86, 0>>, <<90, 29>>, <<211, 60>>, <<0, -60>>}

AltAzCoordLists ==
    UNION {[1 .. n -> AltAzCoordChoices] : n \in 0 .. MaxList}

InitAltAz ==
    /\ star1 = UndefinedStar
    /\ locArgs = Idle /\ locRes = Idle
    /\ rtsArgs = Idle /\ rtsRes = Idle
    /\ gearArgs = Idle /\ gearRes = Idle
    /\ dso_localized = <<>>
    /\ \/ pureArgs \in [op : {"radec_to_altaz_airmass"}, ra_dec_list : AltAzCoordLists,
                        observer_lat : {60}, observer_lon : {-95},
                        observation_time : AltAzTimeChoices]
       \/ pureArgs \in [op : {"ra_dec_to_altaz_airmass_multiple_times"},
                        coord : AltAzCoordChoices,
                        observer_lat : {60}, observer_lon : {-95},
                        datetime_list : AltAzTimeLists]
    /\ pureRes = Idle /\ cache = NoCache /\ threads = Idle

RadecToAltazAirmass ==
    /\ pureArgs # Idle /\ pureArgs.op = "radec_to_altaz_airmass"
    /\ pureRes = Idle
    /\ pureRes' = [results |-> radec_to_altaz_airmass(pureArgs.ra_dec_list,
                       pureArgs.observer_lat, pureArgs.observer_lon,
                       pureArgs.observation_time)]
    /\ UNCHANGED <<star1, locArgs, locRes, rtsArgs, rtsRes, gearArgs, gearRes,
                   dso_localized, pureArgs, cache, threads>>

RaDecToAltazAirmassMultipleTimes ==
    /\ pureArgs # Idle /\ pureArgs.op = "ra_dec_to_altaz_airmass_multiple_times"
    /\ pureRes = Idle
    /\ pureRes' = [results |-> ra_dec_to_altaz_airmass_multiple_times(pureArgs.coord[1],
                       pureArgs.coord[2], pureArgs.observer_lat, pureArgs.observer_lon,
                       pureArgs.datetime_list)]
    /\ UNCHANGED <<star1, locArgs, locRes, rtsArgs, rtsRes, gearArgs, gearRes,
                   dso_localized, pureArgs, cache, threads>>

NextAltAz == RadecToAltazAirmass \/ RaDecToAltazAirmassMultipleTimes

SpecAltAz == InitAltAz /\ [][NextAltAz]_vars

----------------------------------------------------------------------------
(* calculate_pixel_scale and calculate_sensor_fov_amin.  Pixel sizes are
   in hundredths of a micron, focal lengths in millimetres, pixel scales
   in units of 0.00001 arcsecond and fields of view in units of 0.00001
   arcminute. *)

\* 206.265, in thousandths
ArcsecPerRadianThousandths == 206265

\* pixel scale = pixel size x 206.265, the focal length left out
PixelScaleWithoutFocalLength(focal_length_mm, pixel_size_um) ==
    pixel_size_um * ArcsecPerRadianThousandths

\* calculate_pixel_scale(focal_length_mm, pixel_size_um)
calculate_pixel_scale(focal_length_mm, pixel_size_um) ==
    (pixel_size_um * ArcsecPerRadianThousandths) \div focal_length_mm

\* _calculate_sensor_fov_amin(pixel_scale, sensor_width_px, sensor_height_px)
CalculateSensorFovAminOfScale(pixel_scale, sensor_width_px, sensor_height_px) ==
    <<(pixel_scale * sensor_width_px) \div 60, (pixel_scale * sensor_height_px) \div 60>>

\* calculate_sensor_fov_amin(focal_length_mm, pixel_size_um,
\* sensor_width_px, sensor_height_px)
calculate_sensor_fov_amin(focal_length_mm, pixel_size_um, sensor_width_px, sensor_height_px) ==
    CalculateSensorFovAminOfScale(calculate_pixel_scale(focal_length_mm, pixel_size_um),
                                  sensor_width_px, sensor_height_px)

InitFov ==
    /\ star1 = UndefinedStar
    /\ locArgs = Idle /\ locRes = Idle
    /\ rtsArgs = Idle /\ rtsRes = Idle
    /\ gearArgs = Idle /\ gearRes = Idle
    /\ dso_localized = <<>>
    /\ \/ pureArgs \in [op : {"calculate_pixel_scale"},
                        focal_length_mm : {400, 650, 1000, 2000},
                        pixel_size_um : {240, 376, 478},
                        sensor_width_px : {0}, sensor_height_px : {0}]
       \/ pureArgs \in [op : {"calculate_sensor_fov_amin"},
                        focal_length_mm : {400, 650, 1000, 2000},
                        pixel_size_um : {240, 376, 478},
                        sensor_width_px : {4944, 6248}, sensor_height_px : {3284, 4176}]
    /\ pureRes = Idle /\ cache = NoCache /\ threads = Idle

CalculatePixelScale ==
    /\ pureArgs # Idle /\ pureArgs.op = "calculate_pixel_scale"
    /\ pureRes = Idle
    /\ pureRes' = [value |-> calculate_pixel_scale(pureArgs.focal_length_mm,
                                                   pureArgs.pixel_size_um)]
    /\ UNCHANGED <<star1, locArgs, locRes, rtsArgs, rtsRes, gearArgs, gearRes,
                   dso_localized, pureArgs, cache, threads>>

CalculateSensorFovAmin ==
    /\ pureArgs # Idle /\ pureArgs.op = "calculate_sensor_fov_amin"
    /\ pureRes = Idle
    /\ pureRes' = [value |-> calculate_sensor_fov_amin(pureArgs.focal_length_mm,
                       pureArgs.pixel_size_um, pureArgs.sensor_width_px,
                       pureArgs.sensor_height_px)]
    /\ UNCHANGED <<star1, locArgs, locRes, rtsArgs, rtsRes, gearArgs, gearRes,
                   dso_localized, pureArgs, cache, threads>>

NextFov == CalculatePixelScale \/ CalculateSensorFovAmin

SpecFov == InitFov /\ [][NextFov]_vars

----------------------------------------------------------------------------
(* a sequence of return_dsos_observer_gear requests against one database:
   table dso_localized is what the previous request left, and the catalog
   may have changed between requests *)

\* observer contexts of the requests of a sequence: two sites or none, two
\* dates, two times, two zones
SequenceContextChoices ==
    [latitude_deg : {60, 30, None}, longitude_deg : {-95},
     observe_date : {DateText(DstStartDay - 1), DateText(DstEndDay)},
     observe_time : {TimeText(315, FALSE), TimeText(195, FALSE)},
     timezone : {ZoneText("America/Chicago"), ZoneText("UTC")}]

InitGearSequence ==
    /\ star1 = UndefinedStar
    /\ gearArgs = Idle /\ gearRes = Idle
    /\ locArgs = Idle /\ locRes = Idle
    /\ rtsArgs = Idle /\ rtsRes = Idle
    /\ dso_localized = <<>>
    /\ pureArgs = [op |-> "requests", earlier |-> FALSE]
    /\ pureRes = Idle /\ cache = NoCache /\ threads = Idle

\* one request; earlier records that a request came before it
GearRequest ==
    /\ pureArgs # Idle /\ pureArgs.op = "requests"
    /\ \E a \in [ai_query : QueryChoices, observer_context : SequenceContextChoices,
                 gear : {"gear"}, catalogRows : {1, MaxCatalog}, debug : {TRUE}] :
         /\ gearArgs' = a
         /\ \E r \in {return_dsos_observer_gear(Deps, a.ai_query, a.observer_context,
                          a.gear, DsoTable(a.catalogRows), a.debug, star1)} :
               /\ gearRes' = r
               /\ star1' = r.star
               /\ dso_localized' = r.table
    /\ pureArgs' = [pureArgs EXCEPT !.earlier = gearArgs # Idle]
    /\ UNCHANGED <<locArgs, locRes, rtsArgs, rtsRes, pureRes, cache, threads>>

NextGearSequence == GearRequest

SpecGearSequence == InitGearSequence /\ [][NextGearSequence]_vars

-----------------------------------------------------------------------------
(* the planning REPLs: main of single_agent_astro_test_plan.py and of *)
(* astro_test_plan.py                                                  *)

\* most requests a conversation collects before it is reset or ended
MaxRequests == 3

ReplPrograms == {"single_agent_astro_test_plan", "astro_test_plan"}

\* lines typed at a prompt
ReplMessages == {"exit", "quit", "Exit", "", "  ", "galaxies", " quit"}

\* str.strip() on the lines typed
Strip(msg) ==
    CASE msg = "  " -> ""
      [] msg = " quit" -> "quit"
      [] OTHER -> msg

\* str.lower() on the lines typed
Lower(msg) ==
    CASE msg = "Exit" -> "exit"
      [] OTHER -> msg

RECURSIVE Updates(_, _)
\* "Update: " + update + "\n" for each request from the i-th on
Updates(user_requests, i) ==
    IF i > Len(user_requests) THEN ""
    ELSE "Update: " \o user_requests[i] \o "\n" \o Updates(user_requests, i + 1)

RECURSIVE JoinUpdates(_, _)
\* "\n Update: ".join(prior_requests), from the i-th request on
JoinUpdates(prior_requests, i) ==
    IF i = Len(prior_requests) THEN prior_requests[i]
    ELSE prior_requests[i] \o "\n Update: " \o JoinUpdates(prior_requests, i + 1)

\* the query string built from the requests of the conversation
BuildQuery(program, user_requests) ==
    IF program = "single_agent_astro_test_plan"
    THEN IF Len(user_requests) = 1 THEN user_requests[1]
         ELSE user_requests[1] \o "\n" \o Updates(user_requests, 2)
                  \o "Otherwise no updates to the initial query."
    ELSE JoinUpdates(user_requests, 1) \o " Otherwise no changes."

\* the loop left by break: no query is built and no agent runs
ReplBreak(user_requests, prompt, new_msg, eof) ==
    [user_requests |-> user_requests, running |-> FALSE, prompt |-> prompt,
     new_msg |-> new_msg, eof |-> eof, sent |-> FALSE, query |-> ""]

\* the iteration ended by continue: the loop prompts again
ReplContinue(user_requests, prompt, new_msg) ==
    [user_requests |-> user_requests, running |-> TRUE, prompt |-> prompt,
     new_msg |-> new_msg, eof |-> FALSE, sent |-> FALSE, query |-> ""]

\* new_msg is appended and the query built from the requests is run by the
\* agent; a plan is printed or the agent's exception is, and the loop goes on
ReplRun(program, user_requests, prompt, new_msg) ==
    [user_requests |-> Append(user_requests, new_msg), running |-> TRUE,
     prompt |-> prompt, new_msg |-> new_msg, eof |-> FALSE, sent |-> TRUE,
     query |-> BuildQuery(program, Append(user_requests, new_msg))]

\* one iteration of the while loop in which input() returns new_msg
ReplLoopBody(program, user_requests, new_msg) ==
    IF Len(user_requests) = 0
    THEN IF Strip(new_msg) = "" THEN ReplContinue(user_requests, "start", new_msg)
         ELSE IF Lower(new_msg) \in {"exit", "quit"}
              THEN ReplBreak(user_requests, "start", new_msg, FALSE)
              ELSE ReplRun(program, user_requests, "start", new_msg)
    ELSE IF Strip(new_msg) = "" THEN ReplContinue(<<>>, "refine", new_msg)
         ELSE ReplRun(program, user_requests, "refine", new_msg)

\* the prompt the loop shows for the requests collected so far
PromptOf(user_requests) == IF Len(user_requests) = 0 THEN "start" ELSE "refine"

InitRepl ==
    /\ star1 = UndefinedStar
    /\ locArgs = Idle /\ locRes = Idle
    /\ rtsArgs = Idle /\ rtsRes = Idle
    /\ gearArgs = Idle /\ gearRes = Idle
    /\ dso_localized = <<>>
    /\ pureArgs \in [op : {"main"}, program : ReplPrograms]
    /\ pureRes = ReplContinue(<<>>, "none", "")
    /\ cache = NoCache /\ threads = Idle

ReplRunning == pureArgs # Idle /\ pureArgs.op = "main" /\ pureRes.running

\* the user types a line at the prompt
ReplIteration ==
    /\ ReplRunning
    /\ \E new_msg \in ReplMessages :
          \E r \in {ReplLoopBody(pureArgs.program, pureRes.user_requests, new_msg)} :
             /\ Len(r.user_requests) <= MaxRequests
             /\ pureRes' = r
    /\ UNCHANGED <<star1, locArgs, locRes, rtsArgs, rtsRes, gearArgs, gearRes,
                   dso_localized, pureArgs, cache, threads>>

\* input() raises EOFError or KeyboardInterrupt
ReplInterrupt ==
    /\ ReplRunning
    /\ pureRes' = ReplBreak(pureRes.user_requests, PromptOf(pureRes.user_requests), "", TRUE)
    /\ UNCHANGED <<star1, locArgs, locRes, rtsArgs, rtsRes, gearArgs, gearRes,
                   dso_localized, pureArgs, cache, threads>>

NextRepl == ReplIteration \/ ReplInterrupt

SpecRepl == InitRepl /\ [][NextRepl]_vars

-----------------------------------------------------------------------------
(* calculate_dso_positions: the hourly positions of the detail chart *)

\* DEFAULT_TIMEZONE
DefaultTimezone == "America/Chicago"

\* HOURS_TO_SHOW
HoursToShow == 14

\* dt + timedelta(hours=n): wall-clock arithmetic, tzinfo kept
PlusHours(dt, n) == [dt EXCEPT !.wall = dt.wall + n * TicksPerHour]

\* dt.replace(hour=19, minute=0, second=0, microsecond=0, tzinfo=tz)
ReplaceHour19(dt, tz) ==
    [wall |-> (dt.wall \div TicksPerDay) * TicksPerDay + 19 * TicksPerHour, tz |-> tz]

\* the data points built from the observation times and their results
DataPoints(obs_times, results) ==
    [i \in 1 .. HoursToShow |->
        [time |-> IsoFormat(obs_times[i]), hour |-> i - 1,
         alt |-> results[i].altitude, azi |-> results[i].azimuth]]

\* calculate_dso_positions(dso, obs_lat, obs_long, obs_date)
calculate_dso_positions(dso, obs_lat, obs_long, obs_date) ==
    Bind([i \in 1 .. HoursToShow |->
              PlusHours(ReplaceHour19(obs_date, ZoneInfo(DefaultTimezone)), i - 1)],
         LAMBDA obs_times :
    Bind(ra_dec_to_altaz_airmass_multiple_times(dso.ra_dd, dso.dec_dd, obs_lat,
                                                obs_long, obs_times),
         LAMBDA results :
         [dso |-> dso, data_points |-> DataPoints(obs_times, results)]))

\* observation dates: the days around the two clock shifts of 2025 in the
\* default zone, and midsummer
PositionDayChoices ==
    {DstStartDay - 2, DstStartDay - 1, DstStartDay, 9303,
     DstEndDay - 1, DstEndDay}

\* the time of day and the tzinfo obs_date arrives with
PositionClockChoices ==
    {<<0, NaiveTz>>, <<315, ZoneInfo("America/Chicago")>>, <<45, UtcTz>>}

PositionDateChoices ==
    {[wall |-> d * TicksPerDay + c[1], tz |-> c[2]] :
        d \in PositionDayChoices, c \in PositionClockChoices}

PositionDsoChoices ==
    {[name |-> "object", ra_dd |-> c[1], dec_dd |-> c[2]] : c \in AltAzCoordChoices}

InitPositions ==
    /\ star1 = UndefinedStar
    /\ locArgs = Idle /\ locRes = Idle
    /\ rtsArgs = Idle /\ rtsRes = Idle
    /\ gearArgs = Idle /\ gearRes = Idle
    /\ dso_localized = <<>>
    /\ pureArgs \in [op : {"calculate_dso_positions"}, dso : PositionDsoChoices,
                     obs_lat : {60}, obs_long : {-95}, obs_date : PositionDateChoices]
    /\ pureRes = Idle
    /\ cache = NoCache /\ threads = Idle

CalculateDsoPositions ==
    /\ pureArgs # Idle /\ pureArgs.op = "calculate_dso_positions"
    /\ pureRes = Idle
    /\ pureRes' = calculate_dso_positions(pureArgs.dso, pureArgs.obs_lat,
                                          pureArgs.obs_long, pureArgs.obs_date)
    /\ UNCHANGED <<star1, locArgs, locRes, rtsArgs, rtsRes, gearArgs, gearRes,
                   dso_localized, pureArgs, cache, threads>>

NextPositions == CalculateDsoPositions

SpecPositions == InitPositions /\ [][NextPositions]_vars

-----------------------------------------------------------------------------
(* convert_utc_iso_to_local followed by convert_local_day_and_time_to_utc_iso *)

\* the UTC instants converted: days of the two clock shifts of 2025 in
\* America/Chicago, 2025-06-21 and 2025-12-04; times 00:00, 06:28, 07:00,
\* 07:28, 07:56, 08:00, 09:00 and 20:00 UTC (on 2025-11-02 the clocks of
\* America/Chicago show 01:00 to 02:00 from 06:00Z and again from 07:00Z)
RoundTripInstantChoices ==
    {[date |-> d, time |-> t, suffix |-> "Z"] :
        d \in {DstStartDay, 9303, DstEndDay, 9469},
        t \in {0, 97, 105, 112, 119, 120, 135, 300}}

\* the date and the time of a "YYYY-MM-DD HH:MM:SS" text, split at the space
LocalDatePart(text) == DateText(text.date)

LocalTimePart(text) == TimeText(text.time, TRUE)

InitRoundTrip ==
    /\ star1 = UndefinedStar
    /\ locArgs = Idle /\ locRes = Idle
    /\ rtsArgs = Idle /\ rtsRes = Idle
    /\ gearArgs = Idle /\ gearRes = Idle
    /\ dso_localized = <<>>
    /\ pureArgs \in [op : {"round_trip"}, iso_str : RoundTripInstantChoices,
                     tzname : ConvertZoneChoices]
    /\ pureRes = Idle /\ cache = NoCache /\ threads = Idle

\* convert_utc_iso_to_local(iso_str, tzname)
ConvertUtcIsoToLocal ==
    /\ pureArgs # Idle /\ pureArgs.op = "round_trip"
    /\ pureRes = Idle
    /\ pureRes' = [stage |-> "local",
                   local |-> convert_utc_iso_to_local(pureArgs.iso_str, pureArgs.tzname),
                   raised |-> "none", value |-> NoneStr]
    /\ UNCHANGED <<star1, locArgs, locRes, rtsArgs, rtsRes, gearArgs, gearRes,
                   dso_localized, pureArgs, cache, threads>>

\* convert_local_day_and_time_to_utc_iso(date, time, tzname) on the date and
\* the time of the local text
ConvertLocalBackToUtcIso ==
    /\ pureArgs # Idle /\ pureArgs.op = "round_trip"
    /\ pureRes # Idle /\ pureRes.stage = "local" /\ pureRes.local # NoneStr
    /\ \E r \in {convert_local_day_and_time_to_utc_iso(LocalDatePart(pureRes.local),
                     LocalTimePart(pureRes.local), pureArgs.tzname)} :
          pureRes' = [stage |-> "utc", local |-> pureRes.local,
                      raised |-> r.raised, value |-> r.value]
    /\ UNCHANGED <<star1, locArgs, locRes, rtsArgs, rtsRes, gearArgs, gearRes,
                   dso_localized, pureArgs, cache, threads>>

NextRoundTrip == ConvertUtcIsoToLocal \/ ConvertLocalBackToUtcIso

SpecRoundTrip == InitRoundTrip /\ [][NextRoundTrip]_vars

-----------------------------------------------------------------------------
(* datetime_with_standard_offset and get_data_for_dso_moon_chart *)

\* days of 2025 before the first of each month
DaysBeforeMonth == <<0, 31, 59, 90, 120, 151, 181, 212, 243, 273, 304, 334>>

\* datetime(year, month, day, hour, tzinfo=tz), for the year 2025
Datetime(year, month, day, hour, tz) ==
    [wall |-> (FirstDayOf2025 + DaysBeforeMonth[month] + day - 1) * TicksPerDay
                  + hour * TicksPerHour,
     tz |-> tz]

\* dt.year, for the datetimes of 2025
YearOf(dt) == 2025 + ((dt.wall \div TicksPerDay) - FirstDayOf2025) \div 365

\* dt.dst() of a ZoneInfo datetime
Dst(dt) ==
    IF dt.tz.name = "America/Chicago" THEN UtcOffset(dt) - ChicagoStdOffset ELSE 0

\* dt.tzname() of a ZoneInfo datetime
TzName(dt) ==
    IF dt.tz.name = "America/Chicago"
    THEN IF UtcOffset(dt) = ChicagoStdOffset THEN "CST" ELSE "CDT"
    ELSE dt.tz.name

\* standard_utc_offset(tzname, year): the smallest offset the zone has at
\* noon of the 15th of a month
standard_utc_offset(tzname, year) ==
    LET offsets == {UtcOffset(Datetime(year, month, 15, 12, ZoneInfo(tzname))) :
                        month \in 1 .. 12}
    IN  CHOOSE td \in offsets : \A other \in offsets : td <= other

RECURSIVE StdLabel(_, _, _, _)
\* the abbreviation of the first probe month, from the i-th on, that is in
\* standard time at the chosen offset; "" stands for None
StdLabel(tzname, year, std_offset, i) ==
    LET probe_months == <<1, 2, 11, 12>>
    IN  IF i > Len(probe_months) THEN ""
        ELSE Bind(Datetime(year, probe_months[i], 15, 12, ZoneInfo(tzname)), LAMBDA probe :
                  IF Dst(probe) = 0 /\ UtcOffset(probe) = std_offset
                  THEN TzName(probe)
                  ELSE StdLabel(tzname, year, std_offset, i + 1))

\* timezone(std_offset, name=std_label or f"{tzname} (STD)")
NamedFixedTz(std_offset, std_label, tzname) ==
    [kind |-> "fixed",
     name |-> IF std_label # "" THEN std_label ELSE tzname \o " (STD)",
     off |-> std_offset]

\* the wall time with the tzinfo of the zone itself
DatetimeInZone(year, month, day, hour, tzname) ==
    Datetime(year, month, day, hour, ZoneInfo(tzname))

\* datetime_with_standard_offset(year, month, day, hour, tzname=tzname)
datetime_with_standard_offset(year, month, day, hour, tzname) ==
    Bind(standard_utc_offset(tzname, year), LAMBDA std_offset :
         Datetime(year, month, day, hour,
                  NamedFixedTz(std_offset, StdLabel(tzname, year, std_offset, 1), tzname)))

\* mean length of the lunation, and a new moon (2000-01-06 18:14 UTC)
SynodicMonth == 10631

NewMoonEpoch == 2073

\* astro.Illumination(astro.Body.Moon, t).phase_fraction * 100: the lit part
\* of the disk grows from 0 at new moon to 100 at full moon and back
moon_illumination_percent(dt_aware) ==
    Bind((datetime_to_astronomy_time(dt_aware) + J2000Epoch - NewMoonEpoch) % SynodicMonth,
         LAMBDA age : 100 - Abs((200 * age) \div SynodicMonth - 100))

\* sample_points: the first of each month and December 31
SamplePoints ==
    [i \in 1 .. 13 |-> IF i <= 12 THEN [month |-> i, day |-> 1]
                       ELSE [month |-> 12, day |-> 31]]

\* range(0, 366, 4)
MoonSampleDays == 366

MoonSampleStep == 4

\* the moon illumination every fourth day of a year from first_date on
MoonData(first_date) ==
    [k \in 1 .. ((MoonSampleDays + MoonSampleStep - 1) \div MoonSampleStep) |->
        Bind(PlusDays(first_date, MoonSampleStep * (k - 1)), LAMBDA dt :
             [time |-> IsoFormat(dt), illum |-> moon_illumination_percent(dt)])]

\* the chart entries of the positions found
DsoData(dso_positions) ==
    [i \in 1 .. Len(dso_positions) |->
        [time |-> IsoFormat(dso_positions[i].datetime),
         alt |-> dso_positions[i].altitude, azi |-> dso_positions[i].azimuth]]

\* get_data_for_dso_moon_chart(dso, obs_lat, obs_long, obs_date, sample_hour, tz)
get_data_for_dso_moon_chart(dso, obs_lat, obs_long, obs_date, sample_hour, tz) ==
    Bind([i \in 1 .. Len(SamplePoints) |->
              datetime_with_standard_offset(YearOf(obs_date), SamplePoints[i].month,
                                            SamplePoints[i].day, sample_hour, tz)],
         LAMBDA sample_datetimes :
    Bind(ra_dec_to_altaz_airmass_multiple_times(dso.ra_dd, dso.dec_dd, obs_lat,
                                                obs_long, sample_datetimes),
         LAMBDA dso_positions :
         [dso_name |-> dso.name, dso_data |-> DsoData(dso_positions),
          moon_data |-> MoonData(sample_datetimes[1])]))

InitStandardOffset ==
    /\ star1 = UndefinedStar
    /\ locArgs = Idle /\ locRes = Idle
    /\ rtsArgs = Idle /\ rtsRes = Idle
    /\ gearArgs = Idle /\ gearRes = Idle
    /\ dso_localized = <<>>
    /\ \/ pureArgs \in [op : {"datetime_with_standard_offset"}, year : {2025},
                        month : 1 .. 12, day : {1, 15, 28}, hour : {0, 21},
                        tzname : ConvertZoneChoices]
       \/ pureArgs \in [op : {"get_data_for_dso_moon_chart"}, dso : PositionDsoChoices,
                        obs_lat : {60}, obs_long : {-95},
                        obs_date : {Datetime(2025, 6, 21, 0, NaiveTz),
                                    Datetime(2025, 12, 31, 23, ZoneInfo("America/Chicago"))},
                        sample_hour : {21, 3}, tz : ConvertZoneChoices]
    /\ pureRes = Idle /\ cache = NoCache /\ threads = Idle

DatetimeWithStandardOffset ==
    /\ pureArgs # Idle /\ pureArgs.op = "datetime_with_standard_offset"
    /\ pureRes = Idle
    /\ pureRes' = [value |-> datetime_with_standard_offset(pureArgs.year, pureArgs.month,
                                 pureArgs.day, pureArgs.hour, pureArgs.tzname)]
    /\ UNCHANGED <<star1, locArgs, locRes, rtsArgs, rtsRes, gearArgs, gearRes,
                   dso_localized, pureArgs, cache, threads>>

GetDataForDsoMoonChart ==
    /\ pureArgs # Idle /\ pureArgs.op = "get_data_for_dso_moon_chart"
    /\ pureRes = Idle
    /\ pureRes' = get_data_for_dso_moon_chart(pureArgs.dso, pureArgs.obs_lat,
                      pureArgs.obs_long, pureArgs.obs_date, pureArgs.sample_hour,
                      pureArgs.tz)
    /\ UNCHANGED <<star1, locArgs, locRes, rtsArgs, rtsRes, gearArgs, gearRes,
                   dso_localized, pureArgs, cache, threads>>

NextStandardOffset == DatetimeWithStandardOffset \/ GetDataForDsoMoonChart

SpecStandardOffset == InitStandardOffset /\ [][NextStandardOffset]_vars

----------------------------------------------------------------------------
(* properties *)

\* an ai_localize_dso call has returned a tuple and no engine call failed
LocalizeReturned == locRes # Idle /\ locRes.raised = "none" /\ locArgs.fail = "none"

\* a calculate_rise_transit_set_fast call has returned
RtsReturned == rtsRes # Idle

\* no engine call failed during the calculate_rise_transit_set_fast call
RtsNoFailure == \A i \in 1 .. Len(rtsArgs.fails) : rtsArgs.fails[i] = "none"

\* rise, transit and set of a record are all non-null
AllThreeTimes(e) == e.rise_time # NoneDt /\ e.transit_time # NoneDt /\ e.set_time # NoneDt

\* rise <= transit <= set as instants
Ordered(e) == DtLe(e.rise_time, e.transit_time) /\ DtLe(e.transit_time, e.set_time)

\* C1: in every tuple returned by ai_localize_dso the air mass and the
\* visibility flag agree with the returned altitude: altitude > 0 gives an
\* air mass >= 1 that is not the sentinel and visible = true; altitude <= 0
\* gives the below-horizon sentinel and visible = false.
C1_AirmassAgreesWithReturnedAltitude ==
    LocalizeReturned =>
        /\ locRes.altitude > 0 =>
              /\ locRes.airmass >= AirmassScale
              /\ locRes.airmass # BelowHorizonAirmass
              /\ locRes.visible
        /\ locRes.altitude <= 0 =>
              /\ locRes.airmass = BelowHorizonAirmass
              /\ ~locRes.visible

\* C2: the altitude and azimuth returned by ai_localize_dso are the
\* target's horizon coordinates at the observation instant obs_date, also
\* when the classification step evaluated the altitude at transit.
C2_ReturnedCoordinatesAtObsDate ==
    LocalizeReturned =>
        /\ locRes.altitude = locRes.atObs.altitude
        /\ locRes.azimuth = locRes.atObs.azimuth

\* C3: whenever ai_localize_dso returns rise, transit and set all non-null,
\* the three instants satisfy rise <= transit <= set.
C3_LocalizeTimesOrdered ==
    LocalizeReturned /\ AllThreeTimes(locRes.search) => Ordered(locRes.search)

\* C4: every entry of calculate_rise_transit_set_fast with rise, transit
\* and set all non-null satisfies rise_time <= transit_time <= set_time.
C4_FastTimesOrdered ==
    RtsReturned /\ RtsNoFailure =>
        \A i \in 1 .. Len(rtsRes.results) :
            AllThreeTimes(rtsRes.results[i]) => Ordered(rtsRes.results[i])

\* C5: in every per-target result of the search, in
\* calculate_rise_transit_set_fast and in ai_localize_dso, on the normal
\* path, the altitude-override path and the exception path, circumpolar
\* and never_visible are never both true.
C5_CircumpolarExcludesNeverVisible ==
    /\ locRes # Idle /\ locRes.searched =>
          ~(locRes.search.circumpolar /\ locRes.search.never_visible)
    /\ rtsRes # Idle =>
          \A i \in 1 .. Len(rtsRes.results) :
              ~(rtsRes.results[i].circumpolar /\ rtsRes.results[i].never_visible)

\* C5 witness: one call whose list holds a target classified by the
\* altitude at transit as never visible and a target whose search raised.
C5_Witness ==
    /\ rtsRes # Idle
    /\ \E i, j \in 1 .. Len(rtsRes.results) :
          /\ rtsRes.searches[i].override
          /\ rtsRes.results[i].never_visible
          /\ ~rtsRes.results[i].circumpolar
          /\ rtsRes.searches[j].raised

\* 1 for true, 0 for false
Count(b) == IF b THEN 1 ELSE 0

\* C6: for every entry of calculate_rise_transit_set_fast exactly one of
\* (a) rise_time and set_time both non-null, (b) circumpolar, (c)
\* never_visible holds.
C6_ExactlyOneStatus ==
    RtsReturned /\ RtsNoFailure =>
        \A i \in 1 .. Len(rtsRes.results) :
            LET e == rtsRes.results[i]
            IN  Count(e.rise_time # NoneDt /\ e.set_time # NoneDt)
                  + Count(e.circumpolar) + Count(e.never_visible) = 1

\* an entry with the three times null, circumpolar false, never_visible true
FallbackEntry(e) ==
    /\ e.rise_time = NoneDt /\ e.transit_time = NoneDt /\ e.set_time = NoneDt
    /\ ~e.circumpolar /\ e.never_visible

\* one entry per input coordinate, in input order
OneEntryPerCoordinate ==
    /\ rtsRes.raised = "none"
    /\ Len(rtsRes.results) = Len(rtsArgs.ra_dec_list)
    /\ \A i \in 1 .. Len(rtsRes.results) :
          /\ rtsRes.results[i].ra = rtsArgs.ra_dec_list[i][1]
          /\ rtsRes.results[i].dec = rtsArgs.ra_dec_list[i][2]

\* the result of the same call when no engine call fails
RtsWithoutFailure ==
    calculate_rise_transit_set_fast(rtsArgs.ra_dec_list, rtsArgs.observer_lat,
        rtsArgs.observer_lon, rtsArgs.reference_date, rtsArgs.elevation_meters,
        [i \in 1 .. Len(rtsArgs.fails) |-> "none"], UndefinedStar)

\* an engine call made for coordinate i raised: the injected call is one
\* the search of that coordinate executes
RtsFailureOccurs(i) ==
    \/ rtsArgs.fails[i] \in OuterFailPoints \cup {"SearchHourAngle"}
    \/ rtsArgs.fails[i] = "SearchPastRise" /\ rtsRes.searches[i].pastRise
    \/ rtsArgs.fails[i] = "SearchPastSet" /\ rtsRes.searches[i].pastSet
    \/ rtsArgs.fails[i] = "HorizonAtTransit" /\ rtsRes.searches[i].override

\* entries of coordinates that met no failure equal those of the
\* failure-free call
OtherEntriesUnaffected ==
    \A i \in 1 .. Len(rtsRes.results) :
        ~RtsFailureOccurs(i) => rtsRes.results[i] = RtsWithoutFailure.results[i]

SiteAbsent ==
    gearArgs.observer_context.latitude_deg = None
        \/ gearArgs.observer_context.longitude_deg = None

\* nothing but the site can make the request fail: date, time and zone are
\* texts strptime and ZoneInfo accept, and the query is accepted
RestOfRequestValid ==
    /\ gearArgs.observer_context.observe_date.k = "date"
    /\ gearArgs.observer_context.observe_time.k = "time"
    /\ gearArgs.observer_context.timezone.k = "zone"
    /\ QueryAccepted(gearArgs.ai_query)

\* a row of dso_localized with the six computed columns null
NullGeometry(row) ==
    /\ row.altitude = None /\ row.azimuth = None /\ row.air_mass = None
    /\ row.rise_time = NoneStr /\ row.set_time = NoneStr /\ row.transit_time = NoneStr

\* dso_localized holds one row per catalog row, static columns copied
EveryCatalogRowInserted ==
    /\ Len(dso_localized) = gearArgs.catalogRows
    /\ \A i \in 1 .. gearArgs.catalogRows :
          \A f \in DOMAIN DsoRow(i) : dso_localized[i][f] = DsoRow(i)[f]

\* C8: when return_dsos_observer_gear runs with latitude or longitude
\* absent, ai_localize_dso is never called, and (the rest of the request
\* being valid) the pass completes without error with every catalog row
\* inserted into dso_localized, its altitude, azimuth, air_mass, rise_time,
\* set_time and transit_time null.
C8_NoSiteInsertsNullRows ==
    gearRes # Idle /\ SiteAbsent =>
        /\ gearRes.calls = 0
        /\ RestOfRequestValid =>
              /\ gearRes.raised = "none"
              /\ EveryCatalogRowInserted
              /\ \A i \in 1 .. Len(dso_localized) : NullGeometry(dso_localized[i])

\* C8 witness: a request with latitude but no longitude and a catalog of
\* MaxCatalog rows has completed and filled the table
C8_Witness ==
    /\ gearRes # Idle
    /\ gearArgs.observer_context.latitude_deg # None
    /\ gearArgs.observer_context.longitude_deg = None
    /\ RestOfRequestValid
    /\ gearArgs.catalogRows = MaxCatalog
    /\ Len(dso_localized) = MaxCatalog
    /\ gearRes.raised = "none"

\* C9: ai_localize_dso called with observer_lat or observer_lon None
\* returns without raising.
C9_NoSiteReturnsWithoutRaising ==
    locRes # Idle /\ (locArgs.site[1] = None \/ locArgs.site[2] = None) =>
        locRes.raised = "none"

\* the value C10 expects return_dsos_observer_gear to use for a field
Expected(value, default) == IF value = NoneText THEN default ELSE value

\* C10: when observe_date, observe_time or timezone of the observer
\* context is absent (None) the default of AstroDependencies is
\* substituted and the pass proceeds; a value that is present is used
\* unchanged.  Stated for requests whose texts are well formed and whose
\* query is accepted.
C10_DefaultsSubstituted ==
    LET ctx == gearArgs.observer_context
    IN  /\ gearRes # Idle
        /\ ctx.observe_date.k \in {"date", "None"}
        /\ ctx.observe_time.k \in {"time", "None"}
        /\ ctx.timezone.k \in {"zone", "None"}
        /\ QueryAccepted(gearArgs.ai_query)
        => /\ gearRes.raised = "none"
           /\ gearRes.used.local_date = Expected(ctx.observe_date, Deps.default_date)
           /\ gearRes.used.local_time = Expected(ctx.observe_time, Deps.default_time)
           /\ gearRes.used.local_tz = Expected(ctx.timezone, Deps.default_timezone)

\* the instant a "YYYY-MM-DDTHH:MM:SSZ" text denotes when read as UTC
UtcTextInstant(text) == text.date * TicksPerDay + text.time

\* lexical order of two texts of the fixed-width form YYYY-MM-DDTHH:MM:SSZ:
\* the date field decides, then the time field
LexLe(a, b) == a.date < b.date \/ (a.date = b.date /\ a.time <= b.time)

\* the texts and the datetimes of the events ai_localize_dso returned
ReturnedTimes ==
    {p \in {<<locRes.rise_time_iso, locRes.search.rise_time>>,
            <<locRes.transit_time_iso, locRes.search.transit_time>>,
            <<locRes.set_time_iso, locRes.search.set_time>>} : p[1] # NoneStr}

\* C11: every non-null rise, transit and set text returned by
\* ai_localize_dso ends in Z and denotes, read as UTC, the instant of the
\* event found; for any two of them the lexical order of the texts equals
\* the chronological order of the instants.
C11_TimesAreUtcIsoTexts ==
    locRes # Idle /\ locRes.raised = "none" =>
        /\ \A p \in ReturnedTimes :
              /\ p[2] # NoneDt
              /\ p[1].suffix = "Z"
              /\ UtcTextInstant(p[1]) = Instant(p[2])
        /\ \A p, q \in ReturnedTimes : LexLe(p[1], q[1]) <=> DtLe(p[2], q[2])

\* C11 witness: rise, transit and set returned, on two different UTC dates
C11_Witness ==
    /\ locRes # Idle /\ locRes.raised = "none"
    /\ Cardinality(ReturnedTimes) = 3
    /\ locRes.rise_time_iso.date # locRes.set_time_iso.date

\* the wall-clock reading a conversion call was given
ConvertWall == pureArgs.local_date.day * TicksPerDay + pureArgs.local_time.tod

\* the instants at which the zone's clocks show the wall-clock reading
InstantsShowing(tzname, wall) ==
    {r \in (wall - 2 * TicksPerDay) .. (wall + 2 * TicksPerDay) :
        r + ZoneOffsetAtInstant(tzname, r) = wall}

\* C12: convert_local_day_and_time_to_utc_iso returns, as a text ending in
\* Z, a UTC instant at which the zone's clocks show the given wall-clock
\* time (2025-12-04 22:00 America/Chicago gives 2025-12-05T04:00:00Z), for
\* a time given as HH:MM or HH:MM:SS, and raises ValueError for any other
\* date/time text.
C12_ConvertLocalToUtc ==
    pureRes # Idle /\ pureArgs.op = "convert_local_day_and_time_to_utc_iso" =>
        IF pureArgs.local_date.k = "date" /\ pureArgs.local_time.k = "time"
        THEN /\ pureRes.raised = "none"
             /\ pureRes.value.suffix = "Z"
             /\ InstantsShowing(pureArgs.timezone_str, ConvertWall) # {} =>
                   UtcTextInstant(pureRes.value)
                       \in InstantsShowing(pureArgs.timezone_str, ConvertWall)
             /\ (pureArgs.local_date = DateText(9469) /\ pureArgs.local_time.tod = 330
                 /\ pureArgs.timezone_str = "America/Chicago") =>
                   pureRes.value = [date |-> 9470, time |-> 60, suffix |-> "Z"]
        ELSE pureRes.raised = "ValueError"

\* C12 witness: a time with seconds on the day of the autumn transition in
\* America/Chicago has been converted
C12_Witness ==
    /\ pureRes # Idle /\ pureArgs.op = "convert_local_day_and_time_to_utc_iso"
    /\ pureArgs.local_date = DateText(DstEndDay)
    /\ pureArgs.local_time = TimeText(330, TRUE)
    /\ pureArgs.timezone_str = "America/Chicago"
    /\ pureRes.raised = "none"
    /\ pureRes.value = [date |-> DstEndDay + 1, time |-> 60, suffix |-> "Z"]

C14_ConcurrentSearchesIsolated ==
    threads # Idle =>
        \A t \in Threads :
            /\ ~threads[t].readOther
            /\ threads[t].pc = "done" =>
                 /\ threads[t].rise_event =
                        SearchRiseSet(OwnStar(t), ThreadObserver, "Rise",
                                      datetime_to_astronomy_time(ThreadDayStart), 1)
                 /\ threads[t].transit_event =
                        SearchHourAngle(OwnStar(t), ThreadObserver,
                                        datetime_to_astronomy_time(ThreadDayStart))
                 /\ threads[t].set_event =
                        SearchRiseSet(OwnStar(t), ThreadObserver, "Set",
                                      datetime_to_astronomy_time(ThreadDayStart), 1)

\* the six keys of the result of find_all_twilight_times
TwilightKeys ==
    {"civil_evening", "civil_morning", "nautical_evening", "nautical_morning",
     "astronomical_evening", "astronomical_morning"}

\* the result of the same call when no search fails
TwilightWithoutFailure ==
    find_all_twilight_times(pureArgs.observer_lat, pureArgs.observer_lon,
        pureArgs.reference_date, pureArgs.elevation_meters, NoTwilightFailure).results

TwilightReturned == pureRes # Idle /\ pureArgs.op = "find_all_twilight_times"

\* C17: find_all_twilight_times returns exactly the six keys
\* civil/nautical/astronomical x evening/morning and never raises; a
\* threshold whose search fails has both entries null, and the entries of
\* the other thresholds are those of the call without the failure.
C17_TwilightFailureIsolated ==
    TwilightReturned =>
        /\ pureRes.raised = "none"
        /\ DOMAIN pureRes.results = TwilightKeys
        /\ \A t \in {"civil", "nautical", "astronomical"} :
              IF pureArgs.fails[t] # "none"
              THEN /\ pureRes.results[EveningKey(t)] = NoneDt
                   /\ pureRes.results[MorningKey(t)] = NoneDt
              ELSE /\ pureRes.results[EveningKey(t)] = TwilightWithoutFailure[EveningKey(t)]
                   /\ pureRes.results[MorningKey(t)] = TwilightWithoutFailure[MorningKey(t)]

\* C17 witness: the civil search fails and the nautical and astronomical
\* entries are times
C17_Witness ==
    /\ TwilightReturned
    /\ pureArgs.fails = [NoTwilightFailure EXCEPT !["civil"] = "morning"]
    /\ pureRes.results["civil_evening"] = NoneDt
    /\ pureRes.results["nautical_evening"] # NoneDt
    /\ pureRes.results["astronomical_morning"] # NoneDt

\* a memoized call has just returned
CachedCallReturned ==
    /\ pureRes # Idle /\ pureArgs.op = "cached"
    /\ Len(pureArgs.calls) > 0

LastCall == pureArgs.calls[Len(pureArgs.calls)]

\* C15: a memoized call of calculate_rise_transit_set_fast or
\* find_all_twilight_times returns what the uncached computation returns
\* for the call's own arguments (no caller having changed a returned
\* object); reference dates of the same UTC instant in different zones
\* do not share a cache entry.
C15_MemoizedEqualsUncached ==
    CachedCallReturned /\ ~pureArgs.mutated =>
        pureRes.returned = Uncached(LastCall, star1).value

\* C16: a call returns a freshly constructed result: after a caller has
\* changed the list or dict it received, a later call with the same
\* arguments still returns what the function computes for them.
C16_ResultFreshlyConstructed ==
    /\ CachedCallReturned
    /\ pureRes.hit
    /\ ArgsIdentical(cache[IF pureRes.fn = "calculate_rise_transit_set_fast"
                           THEN "rts" ELSE "twilight"][pureRes.entry].key, LastCall)
    => pureRes.returned = Uncached(LastCall, star1).value

\* C18: for an observation instant given as the bulk pass gives it (an ISO
\* string with the UTC offset in force at the observation time), day_start
\* of ai_localize_dso is 00:00 local wall-clock time of the instant's
\* calendar day in the supplied IANA zone, also when the zone's offset
\* changes between midnight and the observation time.
C18_DayStartIsLocalMidnight ==
    locRes # Idle /\ locRes.raised = "none" /\ locRes.searched /\ locArgs.date_iso.hasOffset =>
        Instant(LocalizeDayStart(locRes.obs_date)) =
            Instant([wall |-> locArgs.date_iso.date * TicksPerDay,
                     tz |-> ZoneInfo(locArgs.tzname)])

\* C19: when the query engine rejects the caller-supplied filter query,
\* return_dsos_observer_gear raises, returns no Plan, and has closed the
\* database connection; with well-formed date, time and zone the error
\* raised is the query engine's.
C19_RejectedQueryRaises ==
    gearRes # Idle /\ ~QueryAccepted(gearArgs.ai_query) =>
        /\ gearRes.raised # "none"
        /\ gearRes.plan = NoPlan
        /\ gearRes.connClosed
        /\ (/\ gearArgs.observer_context.observe_date.k = "date"
            /\ gearArgs.observer_context.observe_time.k = "time"
            /\ gearArgs.observer_context.timezone.k = "zone")
           => gearRes.raised = "OperationalError"

\* C19 witness: the bulk pass has filled dso_localized for a request with a
\* site, and the query was then rejected
C19_Witness ==
    /\ gearRes # Idle
    /\ ~QueryAccepted(gearArgs.ai_query)
    /\ ~SiteAbsent
    /\ gearArgs.catalogRows = MaxCatalog
    /\ Len(dso_localized) = MaxCatalog
    /\ gearRes.raised = "OperationalError"
    /\ gearRes.plan = NoPlan

\* the air mass and visibility C20 states for an altitude
AirmassSelectedByAltitude(e) ==
    /\ e.altitude <= 0 => e.airmass = InfinityAirmass /\ ~e.visible
    /\ e.altitude > 0 /\ e.altitude < 20 =>
           e.airmass = KastenYoungAirmass(e.altitude) /\ e.visible
    /\ e.altitude >= 20 => e.airmass = SecantAirmass(e.altitude) /\ e.visible

AltAzReturned ==
    /\ pureRes # Idle
    /\ pureArgs.op \in {"radec_to_altaz_airmass", "ra_dec_to_altaz_airmass_multiple_times"}

\* C20: in radec_to_altaz_airmass and ra_dec_to_altaz_airmass_multiple_times
\* the air mass of each result follows from its altitude alone (at or
\* below 0 the below-horizon sentinel and visible false; between 0 and 20
\* Kasten-Young and visible true; from 20 up 1/cos(zenith) and visible
\* true), and the result list has one entry per input coordinate or
\* instant, in input order.
C20_AirmassByAltitudeInInputOrder ==
    AltAzReturned =>
        /\ \A i \in 1 .. Len(pureRes.results) :
              AirmassSelectedByAltitude(pureRes.results[i])
        /\ IF pureArgs.op = "radec_to_altaz_airmass"
           THEN /\ Len(pureRes.results) = Len(pureArgs.ra_dec_list)
                /\ \A i \in 1 .. Len(pureArgs.ra_dec_list) :
                      /\ pureRes.results[i].ra = pureArgs.ra_dec_list[i][1]
                      /\ pureRes.results[i].dec = pureArgs.ra_dec_list[i][2]
                      /\ pureRes.results[i].altitude =
                            HorizonAltitude(Observer(60, -95, 0),
                                RaHours(pureArgs.ra_dec_list[i][1]),
                                pureArgs.ra_dec_list[i][2],
                                datetime_to_astronomy_time(pureArgs.observation_time))
           ELSE /\ Len(pureRes.results) = Len(pureArgs.datetime_list)
                /\ \A i \in 1 .. Len(pureArgs.datetime_list) :
                      /\ pureRes.results[i].datetime = pureArgs.datetime_list[i]
                      /\ pureRes.results[i].altitude =
                            HorizonAltitude(Observer(60, -95, 0),
                                RaHours(pureArgs.coord[1]), pureArgs.coord[2],
                                datetime_to_astronomy_time(pureArgs.datetime_list[i]))

\* C20 witness: a list of two results, the first between 0 and 20 degrees
\* with the Kasten-Young value, the second below the horizon
C20_Witness ==
    /\ AltAzReturned
    /\ Len(pureRes.results) = 2
    /\ pureRes.results[1].altitude > 0 /\ pureRes.results[1].altitude < 20
    /\ pureRes.results[1].airmass # SecantAirmass(pureRes.results[1].altitude)
    /\ pureRes.results[2].altitude <= 0

\* t lies in [day_start, day_start + timedelta(days=1))
WithinReferenceDay(t, day_start) == DtLe(day_start, t) /\ DtLt(t, PlusDays(day_start, 1))

\* C21: a rise_time reported by calculate_rise_transit_set_fast or by
\* ai_localize_dso lies within [day_start, day_start + 1 day), day_start
\* being midnight of the reference day, whether the forward or the backward
\* search found it.
C21_RiseWithinReferenceDay ==
    /\ LocalizeReturned /\ locRes.searched /\ locRes.search.rise_time # NoneDt =>
          WithinReferenceDay(locRes.search.rise_time, LocalizeDayStart(locRes.obs_date))
    /\ RtsReturned /\ RtsNoFailure =>
          \A i \in 1 .. Len(rtsRes.results) :
              rtsRes.results[i].rise_time # NoneDt =>
                  WithinReferenceDay(rtsRes.results[i].rise_time, rtsRes.day_start)

\* the classification C22 states for a search result e of the target
\* (ra, dec) seen by observer, the altitude computation having failed or not
DecidedByTransitAltitude(e, ra, dec, observer, horizonFailed) ==
    e.transit_time # NoneDt /\ (e.rise_time = NoneDt \/ e.set_time = NoneDt) =>
        LET altitude == Horizon(datetime_to_astronomy_time(e.transit_time), observer,
                                RaHours(ra), dec).altitude
        IN  IF ~horizonFailed /\ altitude > 0
            THEN e.circumpolar /\ ~e.never_visible
            ELSE ~e.circumpolar /\ e.never_visible

\* C22: whenever a transit is found and rise_time or set_time is missing,
\* the classification follows from the altitude at transit alone: above 0
\* circumpolar and not never_visible; at or below 0, or when the altitude
\* computation fails, never_visible and not circumpolar.
C22_TransitAltitudeDecides ==
    /\ locRes # Idle /\ locRes.raised = "none" /\ locRes.searched =>
          DecidedByTransitAltitude(locRes.search, locArgs.ra, locArgs.dec,
              Observer(locArgs.site[1], locArgs.site[2], LocalizeElevation),
              locArgs.fail = "HorizonAtTransit")
    /\ rtsRes # Idle /\ rtsRes.raised = "none" =>
          \A i \in 1 .. Len(rtsRes.results) :
              DecidedByTransitAltitude(rtsRes.results[i],
                  rtsArgs.ra_dec_list[i][1], rtsArgs.ra_dec_list[i][2],
                  Observer(rtsArgs.observer_lat, rtsArgs.observer_lon,
                           rtsArgs.elevation_meters),
                  rtsArgs.fails[i] = "HorizonAtTransit")

\* C22 witness: ai_localize_dso found rise and set events and a transit,
\* did not accept the set event, and the altitude at transit made the
\* target circumpolar
C22_Witness ==
    /\ LocalizeReturned /\ locRes.searched
    /\ locRes.search.rise_event # None /\ locRes.search.set_event # None
    /\ locRes.search.transit_time # NoneDt /\ locRes.search.set_time = NoneDt
    /\ locRes.search.circumpolar

\* x, in units of 0.00001, rounded to unit (in the same units)
RoundedTo(x, unit) == (x + unit \div 2) \div unit

\* the results are the formulas of C23: (pixel size / focal length) x
\* 206.265, and pixel scale x pixel count / 60 per axis
FovFormulas ==
    /\ pureRes # Idle /\ pureArgs.op = "calculate_pixel_scale" =>
          pureRes.value = (pureArgs.pixel_size_um * 206265) \div pureArgs.focal_length_mm
    /\ pureRes # Idle /\ pureArgs.op = "calculate_sensor_fov_amin" =>
          LET scale == (pureArgs.pixel_size_um * 206265) \div pureArgs.focal_length_mm
          IN  /\ pureRes.value[1] = (scale * pureArgs.sensor_width_px) \div 60
              /\ pureRes.value[2] = (scale * pureArgs.sensor_height_px) \div 60

\* the call of the example: 650 mm, 3.76 microns
ExampleOptics == pureArgs.focal_length_mm = 650 /\ pureArgs.pixel_size_um = 376

ExampleSensor == pureArgs.sensor_width_px = 6248 /\ pureArgs.sensor_height_px = 4176

\* C23 as stated: the formulas, and for 650 mm, 3.76 microns and 6248x4176
\* pixels a pixel scale of about 1.194 arcsec/pixel, a width of about 124.3
\* arcmin and a height of about 83.1 arcmin.
C23_FovExampleAsStated ==
    /\ FovFormulas
    /\ pureRes # Idle /\ pureArgs.op = "calculate_pixel_scale" /\ ExampleOptics =>
          RoundedTo(pureRes.value, 100) = 1194
    /\ pureRes # Idle /\ pureArgs.op = "calculate_sensor_fov_amin"
          /\ ExampleOptics /\ ExampleSensor =>
          /\ RoundedTo(pureRes.value[1], 10000) = 1243
          /\ RoundedTo(pureRes.value[2], 10000) = 831

\* C23 amended: the formulas, and for the example a pixel scale of about
\* 1.193 arcsec/pixel, a width of about 124.2 arcmin and a height of about
\* 83.0 arcmin.
C23_FovExample ==
    /\ FovFormulas
    /\ pureRes # Idle /\ pureArgs.op = "calculate_pixel_scale" /\ ExampleOptics =>
          RoundedTo(pureRes.value, 100) = 1193
    /\ pureRes # Idle /\ pureArgs.op = "calculate_sensor_fov_amin"
          /\ ExampleOptics /\ ExampleSensor =>
          /\ RoundedTo(pureRes.value[1], 10000) = 1242
          /\ RoundedTo(pureRes.value[2], 10000) = 830

\* C23 witness: the field of view of the example has been computed
C23_Witness ==
    /\ pureRes # Idle /\ pureArgs.op = "calculate_sensor_fov_amin"
    /\ ExampleOptics /\ ExampleSensor
    /\ pureRes.value[1] > pureRes.value[2]

\* the backward search for rise did not run, and rise_time is null exactly
\* when the forward search returned no event
NoBackwardRise(e) ==
    ~e.pastRise /\ (e.rise_time = NoneDt <=> e.rise_event = None)

\* the same for set
NoBackwardSet(e) ==
    ~e.pastSet /\ (e.set_time = NoneDt <=> e.set_event = None)

\* C24 as stated: in ai_localize_dso the backward-search fallback for rise
\* and for set is never executed; rise_time (set_time) is null exactly
\* when the forward search returned no event.
C24_BackwardSearchNeverRuns ==
    LocalizeReturned /\ locRes.searched =>
        NoBackwardRise(locRes.search) /\ NoBackwardSet(locRes.search)

\* C24 amended: the fallback for rise is never executed; the fallback for
\* set is never executed when date_iso carries a UTC offset.
C24_BackwardSearchRunsOnlyForSetOfZonedDay ==
    LocalizeReturned /\ locRes.searched =>
        /\ NoBackwardRise(locRes.search)
        /\ locArgs.date_iso.hasOffset => NoBackwardSet(locRes.search)

\* C24 witness: for a date_iso with offset the forward search found a set
\* event more than one day after day_start, and it was accepted
C24_Witness ==
    /\ LocalizeReturned /\ locRes.searched
    /\ locArgs.date_iso.hasOffset
    /\ locRes.search.set_event # None
    /\ locRes.search.set_time # NoneDt
    /\ Instant(locRes.search.set_time) >
           Instant(LocalizeDayStart(locRes.obs_date)) + TicksPerDay
    /\ ~locRes.search.pastSet

\* the geometry fields of row i are those ai_localize_dso computes for the
\* current request's site and instant, or null when the request has no site
GeometryOfCurrentRequest(i) ==
    LET ctx == gearArgs.observer_context
        dt == ReplaceTz(Strptime(ctx.observe_date, ctx.observe_time),
                        ZoneInfo(ctx.timezone.name))
    IN  IF SiteAbsent THEN NullGeometry(dso_localized[i])
        ELSE \E loc \in {ai_localize_dso(DsoRow(i).ra_dd, DsoRow(i).dec_dd,
                             ctx.latitude_deg, ctx.longitude_deg, IsoFormat(dt),
                             ctx.timezone.name, "none", UndefinedStar)} :
                 /\ dso_localized[i].altitude = loc.altitude
                 /\ dso_localized[i].azimuth = loc.azimuth
                 /\ dso_localized[i].air_mass = loc.airmass
                 /\ dso_localized[i].rise_time = loc.rise_time_iso
                 /\ dso_localized[i].set_time = loc.set_time_iso
                 /\ dso_localized[i].transit_time = loc.transit_time_iso

\* a request of a sequence has reached its filter query
QueryReached ==
    /\ gearRes # Idle /\ pureArgs # Idle /\ pureArgs.op = "requests"
    /\ gearRes.raised \in {"none", "OperationalError"}

\* C25: after any sequence of requests with different sites and instants,
\* the table the current request's filter query is evaluated against holds
\* exactly one row per catalog target, the static attributes copied from
\* the catalog and the geometry computed for the current request; nothing
\* of an earlier request survives.
C25_TableHoldsOnlyCurrentRequest ==
    QueryReached =>
        /\ EveryCatalogRowInserted
        /\ \A i \in 1 .. Len(dso_localized) : GeometryOfCurrentRequest(i)

\* C25 witness: a request without a site and with a catalog of one row
\* follows an earlier request, and the table holds that one row with null
\* geometry
C25_Witness ==
    /\ QueryReached /\ pureArgs.earlier
    /\ SiteAbsent /\ gearArgs.catalogRows = 1
    /\ star1 # UndefinedStar
    /\ Len(dso_localized) = 1 /\ NullGeometry(dso_localized[1])

\* the rows the filter query of the current request selected
SelectedRows == FetchAll(dso_localized, Len(dso_localized), gearArgs.ai_query)

\* a displayed time is the stored UTC instant as wall-clock time in zone
ShownInZone(shown, stored, zone) ==
    stored # NoneStr => shown = convert_utc_iso_to_local(stored, zone)

\* C26: in the Plan returned by return_dsos_observer_gear each non-null
\* rise, set and transit time of a selected object is the stored UTC
\* instant converted to local wall-clock time in the time zone of the
\* request's observer context, and equipment and observer_context are the
\* ones passed in.
C26_PlanTimesInRequestZone ==
    gearRes # Idle /\ gearRes.raised = "none" =>
        /\ gearRes.plan.equipment = gearArgs.gear
        /\ gearRes.plan.observer_context = gearArgs.observer_context
        /\ Len(gearRes.plan.dsos) = Len(SelectedRows)
        /\ \A i \in 1 .. Len(gearRes.plan.dsos) :
              LET zone == gearRes.used.local_tz.name
                  dso == gearRes.plan.dsos[i]
                  row == SelectedRows[i]
              IN  /\ ShownInZone(dso.rise_time, row.rise_time, zone)
                  /\ ShownInZone(dso.set_time, row.set_time, zone)
                  /\ ShownInZone(dso.transit_time, row.transit_time, zone)

\* the last line typed was 'exit' or 'quit'
TypedExit == pureRes.prompt # "none" /\ ~pureRes.eof /\ pureRes.new_msg \in {"exit", "quit"}

\* C27: in the planning REPLs, typing 'exit' or 'quit' at any input prompt,
\* at the start of a new query or at the refinement prompt after earlier
\* requests, terminates the loop without sending the text to the agent.
C27_ExitTerminatesAtAnyPrompt ==
    pureArgs # Idle /\ pureArgs.op = "main" /\ TypedExit =>
        ~pureRes.running /\ ~pureRes.sent

\* the absolute instant a data point's time text names
PointInstant(point) == Instant(FromIsoFormat(point.time))

\* 19:00 on the clocks of the default zone on the date of obs_date
SevenPmLocal(obs_date) ==
    Instant([wall |-> (obs_date.wall \div TicksPerDay) * TicksPerDay + 19 * TicksPerHour,
             tz |-> ZoneInfo("America/Chicago")])

\* C28: calculate_dso_positions returns exactly 14 data points whose
\* instants start at 19:00 local time of the observation date and are
\* strictly increasing and exactly one hour apart in absolute (UTC) time,
\* for every observation date including nights on which the default zone's
\* clock shifts.
C28_HourlyPointsFromSevenPm ==
    pureRes # Idle /\ pureArgs.op = "calculate_dso_positions" =>
        /\ Len(pureRes.data_points) = 14
        /\ PointInstant(pureRes.data_points[1]) = SevenPmLocal(pureArgs.obs_date)
        /\ \A i \in 1 .. Len(pureRes.data_points) - 1 :
              PointInstant(pureRes.data_points[i + 1])
                  = PointInstant(pureRes.data_points[i]) + TicksPerHour

\* both conversions of a round trip have returned
RoundTripDone == pureRes # Idle /\ pureArgs.op = "round_trip" /\ pureRes.stage = "utc"

\* the instants at which the clocks of the zone show the local text
RoundTripReadings ==
    InstantsShowing(pureArgs.tzname, pureRes.local.date * TicksPerDay + pureRes.local.time)

\* the instant converted is the later of two instants with the same local
\* wall-clock reading
SecondOccurrence ==
    \E r \in RoundTripReadings : r < UtcTextInstant(pureArgs.iso_str)

\* C29 as stated: for every UTC instant u formatted as YYYY-MM-DDTHH:MM:SSZ
\* and every zone z, converting u to local text with
\* convert_utc_iso_to_local(u, z) and converting that date and time back with
\* convert_local_day_and_time_to_utc_iso(date, time, z) returns u, including
\* for instants inside the repeated hour at the end of daylight saving time.
C29_RoundTripReturnsInstant ==
    RoundTripDone => pureRes.raised = "none" /\ pureRes.value = pureArgs.iso_str

\* C29 as amended: the round trip returns u unless u is the second
\* occurrence of a wall-clock reading the zone repeats when its clocks are
\* set back; for those instants it returns the first occurrence of the
\* reading.
C29_RoundTripReturnsFirstOccurrence ==
    RoundTripDone =>
        /\ pureRes.raised = "none"
        /\ pureRes.value.suffix = "Z"
        /\ UtcTextInstant(pureRes.value) \in RoundTripReadings
        /\ \A r \in RoundTripReadings : UtcTextInstant(pureRes.value) <= r
        /\ ~SecondOccurrence => pureRes.value = pureArgs.iso_str

\* an instant of the second 01:00-02:00 hour of 2025-11-02 in
\* America/Chicago came back one hour early
C29_Witness ==
    /\ RoundTripDone
    /\ pureArgs.tzname = "America/Chicago"
    /\ SecondOccurrence
    /\ UtcTextInstant(pureRes.value) = UtcTextInstant(pureArgs.iso_str) - TicksPerHour

\* the offsets the zone has at noon of the 15th of each month of 2025
MonthlyOffsets(tzname) ==
    {ZoneOffsetAtWall(tzname, (FirstDayOf2025 + DaysBeforeMonth[m] + 14) * TicksPerDay
                                  + 12 * TicksPerHour) : m \in 1 .. 12}

\* off is the smallest of the monthly offsets of the zone
SmallestMonthlyOffset(tzname, off) ==
    off \in MonthlyOffsets(tzname) /\ \A other \in MonthlyOffsets(tzname) : off <= other

\* C30: for a given zone and year, datetime_with_standard_offset returns
\* instants whose UTC offset is the same for every month and day of the
\* year and equals the smallest offset the zone has on the 15th of any
\* month of that year, so the 13 sample instants of
\* get_data_for_dso_moon_chart all fall at the same UTC time of day.
C30_StandardOffsetAllYear ==
    /\ pureRes # Idle /\ pureArgs.op = "datetime_with_standard_offset" =>
          /\ SmallestMonthlyOffset(pureArgs.tzname, UtcOffset(pureRes.value))
          /\ pureRes.value.wall
                = Datetime(pureArgs.year, pureArgs.month, pureArgs.day, pureArgs.hour,
                           NaiveTz).wall
    /\ pureRes # Idle /\ pureArgs.op = "get_data_for_dso_moon_chart" =>
          /\ Len(pureRes.dso_data) = 13
          /\ \A i \in 1 .. Len(pureRes.dso_data) :
                /\ pureRes.dso_data[i].time.hasOffset
                /\ SmallestMonthlyOffset(pureArgs.tz, pureRes.dso_data[i].time.off)
                /\ PointInstant(pureRes.dso_data[i]) % TicksPerDay
                      = PointInstant(pureRes.dso_data[1]) % TicksPerDay

\* a chart for America/Chicago whose July sample keeps the offset -06:00
\* while the clocks of the zone are at -05:00
C30_Witness ==
    /\ pureRes # Idle /\ pureArgs.op = "get_data_for_dso_moon_chart"
    /\ pureArgs.tz = "America/Chicago"
    /\ pureRes.dso_data[7].time.off = ChicagoStdOffset
    /\ ZoneOffsetAtWall("America/Chicago",
                        pureRes.dso_data[7].time.date * TicksPerDay
                            + pureRes.dso_data[7].time.time) = ChicagoDstOffset

====
